---------------------------- MODULE Spec2Model ----------------------------
(***************************************************************************)
(* A model of the VetCare clinic service: the appointment and visit        *)
(* coordinator (ClinicFacade), the template CRUD services                  *)
(* (BaseCrudService and its subclasses), the DTO adapters and the route    *)
(* handlers that map failures to HTTP statuses, over a relational store    *)
(* with the constraints of the initial migration.                          *)
(*                                                                         *)
(* Every `await` of a handler on the store is one atomic step; a handler   *)
(* that awaits the store twice (createAppointment: findFirst then create;  *)
(* delete: beforeDelete's findUnique then delete) is two steps, and other  *)
(* requests may run between them. The writes of a prisma.$transaction     *)
(* callback become visible together at its commit, so a transaction is one *)
(* step.                                                                   *)
(***************************************************************************)
EXTENDS Integers, Sequences, FiniteSets, TLC

(***************************************************************************)
(* Bounds of the model.                                                    *)
(***************************************************************************)
\* Appointment ids the SERIAL sequence may hand out.
MaxAppts == 2
\* Clock resolution: instants per UTC calendar day.
TicksPerDay == 2
\* Visit ids the SERIAL sequence may hand out.
MaxVisits == 2
\* Service ids the SERIAL sequence may hand out.
MaxServices == 3
\* Owner ids the SERIAL sequence may hand out.
MaxOwners == 2
\* Pet ids the SERIAL sequence may hand out.
MaxPets == 2
\* Vet ids the SERIAL sequence may hand out.
MaxVets == 3
\* Length of the collections handed to a sort strategy.
MaxItems == 3

\* Concurrent requests in flight.
Procs == {"r1", "r2"}

VARIABLES
    owners,        \* Owner table: id -> row
    ownerSeq,      \* Owner_id_seq: last id handed out
    pets,          \* Pet table: id -> row
    petSeq,        \* Pet_id_seq: last id handed out
    vets,          \* Vet table: id -> row
    vetSeq,        \* Vet_id_seq: last id handed out
    appointments,  \* Appointment table: id -> row
    apptSeq,       \* Appointment_id_seq: last id handed out
    pending,       \* per request: the handler's position between two awaits
    response,      \* the response of the request that completed last
    services,      \* Service table: id -> row
    visits,        \* Visit table: id -> row
    visitSeq,      \* Visit_id_seq: last id handed out
    visitServices, \* VisitService junction table: id -> row
    visitServiceSeq, \* VisitService_id_seq: last id handed out
    listeners,     \* EventEmitter._listeners: event -> listeners in insertion order
    calls          \* the listener invocations made by the last notify

visitVars == <<services, visits, visitSeq, visitServices, visitServiceSeq>>

partyVars == <<owners, ownerSeq, pets, petSeq, vets, vetSeq>>

emitterVars == <<listeners, calls>>

\* The event names of EVENTS that the scenarios subscribe to.
EventNames == {"VISIT_CREATED", "PET_REGISTERED"}

\* No notify has run yet.
NoCalls == [event |-> "", delivered |-> <<>>]

vars == <<owners, ownerSeq, pets, petSeq, vets, vetSeq,
          appointments, apptSeq, pending, response,
          services, visits, visitSeq, visitServices, visitServiceSeq,
          listeners, calls>>

(***************************************************************************)
(* Facade constants and date helpers.                                      *)
(***************************************************************************)
ALL_SLOTS ==
    <<"09:00", "10:00", "11:00", "12:00", "13:00", "14:00", "15:00", "16:00", "17:00">>

Range(s) == {s[i] : i \in DOMAIN s}

\* new Date(value): the instant a date string denotes, in ticks since
\* 2025-04-10T00:00:00Z.
ParseDate(value) ==
    CASE value = "2025-04-10" -> 0
      [] value = "2025-04-10T12:00:00Z" -> 1
      [] value = "2025-04-11" -> TicksPerDay

startOfDay(date) ==
    LET d == ParseDate(date) IN d - (d % TicksPerDay)

endOfDay(date) ==
    LET d == ParseDate(date) IN (d - (d % TicksPerDay)) + (TicksPerDay - 1)

(***************************************************************************)
(* Request inputs.                                                         *)
(***************************************************************************)
\* Bodies of POST /api/appointments. "" is a missing (falsy) value, "25:00" a
\* string outside ALL_SLOTS; pet 2 is no row of the Pet table.
Body(petId, vetId, date, timeSlot) ==
    [petId |-> petId, vetId |-> vetId, ownerId |-> 1, date |-> date, timeSlot |-> timeSlot]

AppointmentBodies ==
    { Body(1, 1, "2025-04-10", "09:00"),
      Body(1, 1, "2025-04-10T12:00:00Z", "09:00"),
      Body(1, 2, "2025-04-10", "09:00"),
      Body(1, 1, "2025-04-11", "09:00"),
      Body(1, 1, "2025-04-10", "10:00"),
      Body(1, 1, "2025-04-10", "25:00"),
      Body(1, 1, "2025-04-10", ""),
      Body(2, 1, "2025-04-10", "09:00") }

\* Arguments of AppointmentService.create: a slot that POST may have booked,
\* at the same and at another instant of the day, a string outside the slot
\* list, and a pet that has no row.
CreateData ==
    { Body(1, 1, "2025-04-10", "09:00"),
      Body(1, 1, "2025-04-10T12:00:00Z", "09:00"),
      Body(1, 1, "2025-04-10", "25:00"),
      Body(2, 1, "2025-04-10", "09:00") }

\* Bodies of PUT /api/appointments/[id]: partial updates of one field.
UpdateBodies ==
    { [status |-> "scheduled"], [status |-> "completed"], [status |-> "cancelled"],
      [timeSlot |-> "09:00"], [timeSlot |-> "25:00"],
      [vetId |-> 1], [date |-> "2025-04-10"] }

\* A body that also carries a status.
WithStatus(body, status) ==
    [f \in DOMAIN body \cup {"status"} |-> IF f = "status" THEN status ELSE body[f]]

\* Bodies of POST /api/appointments that carry a status, one of them a string
\* that is no appointment status.
StatusBodies ==
    { WithStatus(Body(1, 1, "2025-04-10", "09:00"), "completed"),
      WithStatus(Body(1, 1, "2025-04-10", "09:00"), "bogus"),
      WithStatus(Body(1, 1, "2025-04-10", "10:00"), "cancelled") }

\* Bodies of PUT /api/appointments/[id] that set the status.
StatusUpdates ==
    { [status |-> "completed"], [status |-> "cancelled"], [status |-> "bogus"] }

ApptIds == 1..MaxAppts

NoBody == [petId |-> 0, vetId |-> 0, ownerId |-> 0, date |-> "", timeSlot |-> ""]
Idle == [op |-> "idle", data |-> NoBody, id |-> 0]

(***************************************************************************)
(* The store: Appointment table of the initial migration.                  *)
(***************************************************************************)
\* Appointment_petId_fkey, Appointment_vetId_fkey, Appointment_ownerId_fkey.
AppointmentRefsExist(row) ==
    /\ row.petId \in DOMAIN pets
    /\ row.vetId \in DOMAIN vets
    /\ row.ownerId \in DOMAIN owners

\* prisma.appointment.create: the table with the row stored under the next id.
AppointmentInsert(row) == [id \in DOMAIN appointments \cup {apptSeq + 1} |->
                              IF id = apptSeq + 1 THEN row ELSE appointments[id]]

\* prisma.appointment.update({where: {id}, data}): only the fields present in
\* data are replaced.
AppointmentPatch(id, data) ==
    [appointments EXCEPT ![id] =
        [f \in DOMAIN appointments[id] |->
            IF f \in DOMAIN data THEN data[f] ELSE appointments[id][f]]]

\* prisma.appointment.delete({where: {id}}).
AppointmentRemove(id) == [i \in DOMAIN appointments \ {id} |-> appointments[i]]

\* Requests that passed their first await and still hold a write.
InFlightCreates == Cardinality({p \in Procs : pending[p].op = "createAppointment"})

(***************************************************************************)
(* ClinicFacade.createAppointment.                                         *)
(***************************************************************************)
\* Mutant: the date filter has no upper bound (lte dayEnd left out).
ConflictRows_NoDayEnd(data) ==
    {id \in DOMAIN appointments :
        /\ appointments[id].vetId = data.vetId
        /\ appointments[id].timeSlot = data.timeSlot
        /\ appointments[id].date >= startOfDay(data.date)
        /\ appointments[id].status # "cancelled"}

\* Mutant: cancelled appointments count as conflicts (status filter left out).
ConflictRows_AnyStatus(data) ==
    {id \in DOMAIN appointments :
        /\ appointments[id].vetId = data.vetId
        /\ appointments[id].timeSlot = data.timeSlot
        /\ appointments[id].date >= startOfDay(data.date)
        /\ appointments[id].date <= endOfDay(data.date)}

\* The findFirst of the conflict check: same vet, same slot, date within
\* [dayStart, dayEnd], status not cancelled.
ConflictRows(data) ==
    {id \in DOMAIN appointments :
        /\ appointments[id].vetId = data.vetId
        /\ appointments[id].timeSlot = data.timeSlot
        /\ appointments[id].date >= startOfDay(data.date)
        /\ appointments[id].date <= endOfDay(data.date)
        /\ appointments[id].status # "cancelled"}

\* Mutant: a status of the input is passed on to the store.
NewAppointment_StatusFromInput(data) ==
    [petId |-> data.petId, vetId |-> data.vetId, ownerId |-> data.ownerId,
     date |-> ParseDate(data.date), timeSlot |-> data.timeSlot,
     status |-> IF "status" \in DOMAIN data THEN data.status ELSE "scheduled"]

\* The row handed to prisma.appointment.create.
NewAppointment(data) ==
    [petId |-> data.petId, vetId |-> data.vetId, ownerId |-> data.ownerId,
     date |-> ParseDate(data.date), timeSlot |-> data.timeSlot,
     status |-> "scheduled"]

(***************************************************************************)
(* ClinicFacade.getVetAvailability.                                        *)
(***************************************************************************)
\* Mutant: cancelled appointments are fetched too (status filter left out).
AvailabilityRows_AnyStatus(vetId, date) ==
    {id \in DOMAIN appointments :
        /\ appointments[id].vetId = vetId
        /\ appointments[id].date >= startOfDay(date)
        /\ appointments[id].date <= endOfDay(date)}

\* The findMany: the vet's appointments of the day that are not cancelled.
AvailabilityRows(vetId, date) ==
    {id \in DOMAIN appointments :
        /\ appointments[id].vetId = vetId
        /\ appointments[id].date >= startOfDay(date)
        /\ appointments[id].date <= endOfDay(date)
        /\ appointments[id].status # "cancelled"}

getVetAvailability(vetId, date) ==
    LET busySlots == {appointments[id].timeSlot : id \in AvailabilityRows(vetId, date)}
    IN  [i \in DOMAIN ALL_SLOTS |->
            [slot |-> ALL_SLOTS[i],
             status |-> IF ALL_SLOTS[i] \in busySlots THEN "busy" ELSE "free"]]

(***************************************************************************)
(* Responses (ResponseFactory) with the status the route sends.            *)
(***************************************************************************)
\* text is the error of a failure and the message of a success; id is the id
\* of the row in the data of a success, 0 otherwise.
Reply(status, text, id) == [status |-> status, text |-> text, id |-> id]

\* String.prototype.includes on the messages the handlers can see.
Includes(message, word) ==
    <<message, word>> \in
        { <<"timeSlot must be one of: 09:00, 10:00, 11:00, 12:00, 13:00, 14:00, 15:00, 16:00, 17:00", "timeSlot">>,
          <<"A valid petId is required", "required">>,
          <<"A valid petId is required", "valid">>,
          <<"A valid vetId is required", "required">>,
          <<"A valid vetId is required", "valid">>,
          <<"A valid ownerId is required", "required">>,
          <<"A valid ownerId is required", "valid">>,
          <<"Cannot delete a scheduled appointment. Cancel it first.", "scheduled">>,
          <<"firstName is required", "required">>,
          <<"lastName is required", "required">>,
          <<"A valid email is required", "required">>,
          <<"A valid email is required", "valid">>,
          <<"Pet name is required", "required">>,
          <<"Diagnosis is required", "required">>,
          <<"A valid ownerId is required", "required">>,
          <<"A valid ownerId is required", "valid">>,
          <<"A valid petId is required", "required">>,
          <<"A valid petId is required", "valid">>,
          <<"A valid vetId is required", "required">>,
          <<"A valid vetId is required", "valid">>,
          <<"Invalid prisma invocation: Argument is missing.", "valid">>,
          <<"Invalid prisma invocation: Unique constraint failed on the fields: (email)", "valid">>,
          <<"Invalid prisma invocation: Foreign key constraint violated", "valid">>,
          <<"Invalid prisma invocation: Record to update not found.", "valid">>,
          <<"Invalid prisma invocation: Record to delete does not exist.", "valid">> }

\* An error thrown in a handler: the code of a store client error ("" when it
\* has none) and its message. The store client's messages open with
\* "Invalid prisma.<model>.<action>() invocation".
Thrown(code, message) == [code |-> code, message |-> message]
NoError == Thrown("", "")
MissingArgument == Thrown("", "Invalid prisma invocation: Argument is missing.")
UniqueViolation ==
    Thrown("P2002", "Invalid prisma invocation: Unique constraint failed on the fields: (email)")
ForeignKeyViolation ==
    Thrown("P2003", "Invalid prisma invocation: Foreign key constraint violated")
UpdateNotFound ==
    Thrown("P2025", "Invalid prisma invocation: Record to update not found.")
DeleteNotFound ==
    Thrown("P2025", "Invalid prisma invocation: Record to delete does not exist.")

\* isValidation of the owner, pet and visit routes.
IsValidation(message) == Includes(message, "required") \/ Includes(message, "valid")

(***************************************************************************)
(* AppointmentService hooks (template method).                             *)
(***************************************************************************)
\* AppointmentService.validate: the message it throws, "" when it accepts.
\* !Number(x) holds of 0 among the ids modelled.
AppointmentValidate(data) ==
    IF "timeSlot" \in DOMAIN data /\ data.timeSlot \notin Range(ALL_SLOTS)
    THEN "timeSlot must be one of: 09:00, 10:00, 11:00, 12:00, 13:00, 14:00, 15:00, 16:00, 17:00"
    ELSE IF "petId" \in DOMAIN data /\ data.petId = 0
    THEN "A valid petId is required"
    ELSE IF "vetId" \in DOMAIN data /\ data.vetId = 0
    THEN "A valid vetId is required"
    ELSE IF "ownerId" \in DOMAIN data /\ data.ownerId = 0
    THEN "A valid ownerId is required"
    ELSE ""

\* AppointmentService.transformInput: date becomes a Date; ids are numbers.
AppointmentTransformInput(data) ==
    [f \in DOMAIN data |-> IF f = "date" THEN ParseDate(data[f]) ELSE data[f]]

\* The row the store holds for a create without a status: the column default.
WithDefaults(clean) ==
    [f \in DOMAIN clean \cup {"status"} |->
        IF f \in DOMAIN clean THEN clean[f] ELSE "scheduled"]

\* Mutant: the guard never throws.
BeforeDeleteThrows_Never(id) == FALSE

\* Mutant: the guard lets only cancelled appointments through.
BeforeDeleteThrows_UnlessCancelled(id) ==
    id \in DOMAIN appointments /\ appointments[id].status # "cancelled"

\* AppointmentService.beforeDelete: whether it throws.
BeforeDeleteThrows(id) ==
    id \in DOMAIN appointments /\ appointments[id].status = "scheduled"

(***************************************************************************)
(* POST /api/appointments: ClinicFacade.createAppointment behind the       *)
(* route's required-field checks and error mapping.                        *)
(***************************************************************************)
\* Up to the facade's first await (the conflict check) and its outcome.
PostAppointmentCheck(p, body) ==
    /\ pending[p].op = "idle"
    /\ apptSeq + InFlightCreates < MaxAppts
    /\ IF body.petId = 0 \/ body.vetId = 0 \/ body.ownerId = 0
       THEN /\ response' = Reply(400, "petId, vetId and ownerId are required", 0)
            /\ UNCHANGED pending
       ELSE IF body.date = "" \/ body.timeSlot = ""
       THEN /\ response' = Reply(400, "date and timeSlot are required", 0)
            /\ UNCHANGED pending
       ELSE IF ConflictRows(body) # {}
       THEN /\ response' = Reply(409, "This time slot is already booked for the selected vet", 0)
            /\ UNCHANGED pending
       ELSE /\ pending' = [pending EXCEPT ![p] =
                              [op |-> "createAppointment", data |-> body, id |-> 0]]
            /\ UNCHANGED response
    /\ UNCHANGED <<emitterVars, visitVars, partyVars, appointments, apptSeq>>

\* The facade's second await: prisma.appointment.create.
PostAppointmentWrite(p) ==
    /\ pending[p].op = "createAppointment"
    /\ pending' = [pending EXCEPT ![p] = Idle]
    /\ IF AppointmentRefsExist(NewAppointment(pending[p].data))
       THEN /\ appointments' = AppointmentInsert(NewAppointment(pending[p].data))
            /\ apptSeq' = apptSeq + 1
            /\ response' = Reply(201, "Created successfully", apptSeq + 1)
       ELSE /\ response' = Reply(500, "Failed to create appointment", 0)
            /\ UNCHANGED <<appointments, apptSeq>>
    /\ UNCHANGED <<emitterVars, visitVars, partyVars>>

(***************************************************************************)
(* AppointmentService.create (BaseCrudService.create): no route calls it;  *)
(* the reply carries status 0 and the message thrown, "" on return.        *)
(***************************************************************************)
AppointmentServiceCreate(data) ==
    /\ apptSeq + InFlightCreates < MaxAppts
    /\ IF AppointmentValidate(data) # ""
       THEN /\ response' = Reply(0, AppointmentValidate(data), 0)
            /\ UNCHANGED <<appointments, apptSeq>>
       ELSE IF ~AppointmentRefsExist(AppointmentTransformInput(data))
       THEN /\ response' = Reply(0, "Foreign key constraint violated", 0)
            /\ UNCHANGED <<appointments, apptSeq>>
       ELSE /\ appointments' =
                   AppointmentInsert(WithDefaults(AppointmentTransformInput(data)))
            /\ apptSeq' = apptSeq + 1
            /\ response' = Reply(0, "", apptSeq + 1)
    /\ UNCHANGED <<emitterVars, visitVars, partyVars, pending>>

(***************************************************************************)
(* PUT /api/appointments/[id]: AppointmentService.update                   *)
(* (BaseCrudService.update) and the route's error mapping.                 *)
(***************************************************************************)
PutAppointment(id, body) ==
    /\ IF AppointmentValidate(body) # ""
       THEN /\ response' =
                   IF Includes(AppointmentValidate(body), "timeSlot")
                          \/ Includes(AppointmentValidate(body), "required")
                   THEN Reply(400, AppointmentValidate(body), 0)
                   ELSE Reply(500, "Failed to update appointment", 0)
            /\ UNCHANGED appointments
       ELSE IF id \notin DOMAIN appointments
       THEN /\ response' = Reply(404, "Appointment not found", 0)
            /\ UNCHANGED appointments
       ELSE IF ~AppointmentRefsExist(AppointmentPatch(id, AppointmentTransformInput(body))[id])
       THEN /\ response' = Reply(500, "Failed to update appointment", 0)
            /\ UNCHANGED appointments
       ELSE /\ appointments' = AppointmentPatch(id, AppointmentTransformInput(body))
            /\ response' = Reply(200, "Appointment updated successfully", id)
    /\ UNCHANGED <<emitterVars, visitVars, partyVars, apptSeq, pending>>

(***************************************************************************)
(* DELETE /api/appointments/[id]: AppointmentService.delete                *)
(* (BaseCrudService.delete) and the route's error mapping.                 *)
(***************************************************************************)
\* beforeDelete: the findUnique and the guard.
DeleteAppointmentCheck(p, id) ==
    /\ pending[p].op = "idle"
    /\ IF BeforeDeleteThrows(id)
       THEN /\ response' =
                   IF Includes("Cannot delete a scheduled appointment. Cancel it first.", "scheduled")
                   THEN Reply(409, "Cannot delete a scheduled appointment. Cancel it first.", 0)
                   ELSE Reply(500, "Failed to delete appointment", 0)
            /\ UNCHANGED pending
       ELSE /\ pending' = [pending EXCEPT ![p] = [op |-> "delete", data |-> NoBody, id |-> id]]
            /\ UNCHANGED response
    /\ UNCHANGED <<emitterVars, visitVars, partyVars, appointments, apptSeq>>

\* this.model.delete and the return of {id}.
DeleteAppointmentWrite(p) ==
    /\ pending[p].op = "delete"
    /\ pending' = [pending EXCEPT ![p] = Idle]
    /\ IF pending[p].id \in DOMAIN appointments
       THEN /\ appointments' = AppointmentRemove(pending[p].id)
            /\ response' = Reply(200, "Appointment deleted successfully", pending[p].id)
       ELSE /\ response' = Reply(404, "Appointment not found", 0)
            /\ UNCHANGED appointments
    /\ UNCHANGED <<emitterVars, visitVars, partyVars, apptSeq>>

(***************************************************************************)
(* Visits: ClinicFacade.createVisitWithServices, VisitAdapter.toDTO and    *)
(* POST /api/visits; POST /api/services.                                    *)
(***************************************************************************)
VisitBody(petId, vetId, date, diagnosis, serviceIds) ==
    [petId |-> petId, vetId |-> vetId, date |-> date, diagnosis |-> diagnosis,
     serviceIds |-> serviceIds]

\* Request bodies of POST /api/visits: no service, one, several, the same
\* service twice, a service id that may not exist (alone and after a valid
\* one), a pet that does not exist, a missing petId, a blank diagnosis, a
\* missing date.
VisitBodies ==
    { VisitBody(1, 1, "2025-04-10", "Flu", <<>>),
      VisitBody(1, 1, "2025-04-10", "Flu", <<1>>),
      VisitBody(1, 1, "2025-04-11", "Flu", <<1, 2>>),
      VisitBody(1, 2, "2025-04-10", "Checkup", <<2, 2>>),
      VisitBody(1, 1, "2025-04-10", "Flu", <<1, 3>>),
      VisitBody(1, 1, "2025-04-10", "Flu", <<3>>),
      VisitBody(2, 1, "2025-04-10", "Flu", <<1>>),
      VisitBody(0, 1, "2025-04-10", "Flu", <<1>>),
      VisitBody(1, 1, "2025-04-10", "  ", <<1>>),
      VisitBody(1, 1, "", "Flu", <<1>>) }

\* Where the store connection may fail inside the transaction.
StoreFaults == {"none", "refetch"}

\* Request bodies of POST /api/services.
ServiceBodies ==
    { [name |-> "X-ray", price |-> 20],
      [name |-> "  ", price |-> 20] }

\* new Date(value) is a valid date.
IsValidDate(value) == value \in {"2025-04-10", "2025-04-10T12:00:00Z", "2025-04-11"}

\* !value?.trim()
IsBlank(value) == value \in {"", " ", "  "}

\* formatDate: the UTC calendar day of an instant, as "YYYY-MM-DD".
formatDate(date) ==
    IF date \div TicksPerDay = 0 THEN "2025-04-10" ELSE "2025-04-11"

\* The ids of a set in ascending order.
RECURSIVE Ascending(_)
Ascending(ids) ==
    IF ids = {} THEN <<>>
    ELSE LET least == CHOOSE x \in ids : \A y \in ids : x <= y
         IN <<least>> \o Ascending(ids \ {least})

\* tx.visit.create: the Visit table after the insert, or the failure of the
\* insert (an invalid date, or a foreign key without its row).
TxVisitCreate(data) ==
    LET id == visitSeq + 1
        ok == IsValidDate(data.date) /\ data.petId \in DOMAIN pets /\ data.vetId \in DOMAIN vets
    IN [ok |-> ok,
        id |-> id,
        visits |-> IF ok
                   THEN [v \in DOMAIN visits \cup {id} |->
                            IF v = id
                            THEN [petId |-> data.petId, vetId |-> data.vetId,
                                  date |-> ParseDate(data.date),
                                  diagnosis |-> data.diagnosis]
                            ELSE visits[v]]
                   ELSE visits]

\* tx.visitService.createMany: one junction row per element of serviceIds,
\* in order; the statement fails as a whole when a service id has no row.
\* Not called for an empty list.
TxCreateMany(visitId, serviceIds) ==
    LET n == Len(serviceIds)
        ok == \A i \in 1..n : serviceIds[i] \in DOMAIN services
        ids == {visitServiceSeq + i : i \in 1..n}
    IN [ok |-> ok,
        visitServices |->
            IF ok
            THEN [j \in DOMAIN visitServices \cup ids |->
                    IF j \in ids
                    THEN [visitId |-> visitId,
                          serviceId |-> serviceIds[j - visitServiceSeq]]
                    ELSE visitServices[j]]
            ELSE visitServices]

\* tx.visit.findUnique with include { services: { include: { service } } }.
TxFindVisit(visitRows, junctionRows, id) ==
    LET linked == Ascending({j \in DOMAIN junctionRows : junctionRows[j].visitId = id})
    IN [id |-> id,
        petId |-> visitRows[id].petId,
        vetId |-> visitRows[id].vetId,
        date |-> visitRows[id].date,
        diagnosis |-> visitRows[id].diagnosis,
        services |-> [i \in 1..Len(linked) |->
                        [id |-> linked[i],
                         service |-> [id |-> junctionRows[linked[i]].serviceId,
                                      name |-> services[junctionRows[linked[i]].serviceId].name,
                                      price |-> services[junctionRows[linked[i]].serviceId].price]]]]

NoVisit == [id |-> 0]

\* Mutant: the three steps run outside a transaction, so what was written
\* before the failing step stays.
createVisitWithServices_NoRollback(data, serviceIds, fault) ==
    LET created == TxVisitCreate(data)
        linked == IF created.ok /\ Len(serviceIds) > 0
                  THEN TxCreateMany(created.id, serviceIds)
                  ELSE [ok |-> created.ok, visitServices |-> visitServices]
        ok == created.ok /\ linked.ok /\ fault # "refetch"
    IN [ok |-> ok,
        visits |-> created.visits,
        visitSeq |-> IF created.ok THEN created.id ELSE visitSeq,
        visitServices |-> linked.visitServices,
        visitServiceSeq |-> IF created.ok /\ linked.ok
                            THEN visitServiceSeq + Len(serviceIds)
                            ELSE visitServiceSeq,
        visit |-> IF ok
                  THEN TxFindVisit(created.visits, linked.visitServices, created.id)
                  ELSE NoVisit]

\* ClinicFacade.createVisitWithServices: prisma.$transaction over the three
\* steps. The callback's writes are committed when it returns and rolled
\* back when it throws.
createVisitWithServices(data, serviceIds, fault) ==
    LET created == TxVisitCreate(data)
        linked == IF created.ok /\ Len(serviceIds) > 0
                  THEN TxCreateMany(created.id, serviceIds)
                  ELSE [ok |-> created.ok, visitServices |-> visitServices]
        ok == created.ok /\ linked.ok /\ fault # "refetch"
    IN [ok |-> ok,
        visits |-> IF ok THEN created.visits ELSE visits,
        visitSeq |-> IF ok THEN created.id ELSE visitSeq,
        visitServices |-> IF ok THEN linked.visitServices ELSE visitServices,
        visitServiceSeq |-> IF ok THEN visitServiceSeq + Len(serviceIds)
                                  ELSE visitServiceSeq,
        visit |-> IF ok
                  THEN TxFindVisit(created.visits, linked.visitServices, created.id)
                  ELSE NoVisit]

\* mappedServices of VisitAdapter.toDTO.
MappedServices(visit) ==
    [i \in DOMAIN visit.services |->
        [id |-> visit.services[i].id,
         name |-> visit.services[i].service.name,
         price |-> visit.services[i].service.price]]

\* Mutant: the reduce overwrites the accumulator instead of adding to it.
ReducePrices_LastOnly(mapped) ==
    IF mapped = <<>> THEN 0 ELSE mapped[Len(mapped)].price

\* mappedServices.reduce((sum, s) => sum + (s.price ?? 0), 0)
RECURSIVE ReducePrices(_)
ReducePrices(mapped) ==
    IF mapped = <<>> THEN 0
    ELSE ReducePrices(SubSeq(mapped, 1, Len(mapped) - 1)) + mapped[Len(mapped)].price

\* VisitAdapter.toDTO, for a visit fetched with its services.
VisitToDTO(visit) ==
    [id |-> visit.id,
     date |-> formatDate(visit.date),
     diagnosis |-> visit.diagnosis,
     petId |-> visit.petId,
     vetId |-> visit.vetId,
     services |-> MappedServices(visit),
     totalCost |-> ReducePrices(MappedServices(visit))]

\* POST /api/visits.
PostVisit(body, fault) ==
    /\ visitSeq < MaxVisits
    /\ IF body.petId = 0 \/ body.vetId = 0
       THEN /\ response' = Reply(400, "petId and vetId are required", 0)
            /\ UNCHANGED <<visits, visitSeq, visitServices, visitServiceSeq>>
       ELSE IF IsBlank(body.diagnosis)
       THEN /\ response' = Reply(400, "diagnosis is required", 0)
            /\ UNCHANGED <<visits, visitSeq, visitServices, visitServiceSeq>>
       ELSE LET result == createVisitWithServices(body, body.serviceIds, fault)
            IN /\ visits' = result.visits
               /\ visitSeq' = result.visitSeq
               /\ visitServices' = result.visitServices
               /\ visitServiceSeq' = result.visitServiceSeq
               /\ response' =
                    IF result.ok
                    THEN [status |-> 201, text |-> "Created successfully",
                          id |-> result.visit.id, data |-> VisitToDTO(result.visit)]
                    ELSE Reply(500, "Failed to create visit", 0)
    /\ UNCHANGED <<emitterVars, partyVars, appointments, apptSeq, pending, services>>

\* POST /api/services.
PostService(body) ==
    /\ Cardinality(DOMAIN services) < MaxServices
    /\ IF IsBlank(body.name)
       THEN /\ response' = Reply(400, "name is required", 0)
            /\ UNCHANGED services
       ELSE LET id == Cardinality(DOMAIN services) + 1
            IN /\ services' = [s \in DOMAIN services \cup {id} |->
                                 IF s = id THEN [name |-> body.name, price |-> body.price]
                                 ELSE services[s]]
               /\ response' = Reply(201, "Created successfully", id)
    /\ UNCHANGED <<emitterVars, partyVars, appointments, apptSeq, pending,
                   visits, visitSeq, visitServices, visitServiceSeq>>

(***************************************************************************)
(* Owners: OwnerService behind POST /api/owners and /api/owners/[id].      *)
(* Of the Owner columns, firstName, lastName and email are modelled; every *)
(* body carries the phone and the address.                                 *)
(***************************************************************************)
\* Bodies of POST /api/owners: a new owner, an email that is taken, blank
\* names, an email without "@", and bodies that omit a field.
OwnerBodies ==
    { [firstName |-> "Tom", lastName |-> "Jones", email |-> "tom@example.com"],
      [firstName |-> "Ann", lastName |-> "Lee", email |-> "jane@example.com"],
      [firstName |-> "  ", lastName |-> "Jones", email |-> "tom@example.com"],
      [firstName |-> "Tom", lastName |-> "", email |-> "tom@example.com"],
      [firstName |-> "Tom", lastName |-> "Jones", email |-> "tomexample.com"],
      [lastName |-> "Jones", email |-> "tom@example.com"],
      [firstName |-> "Tom", email |-> "tom@example.com"],
      [firstName |-> "Tom", lastName |-> "Jones"] }

\* Bodies of PUT /api/owners/[id]: partial updates of one field.
OwnerUpdates ==
    { [email |-> "jane@example.com"], [email |-> "tom@example.com"],
      [email |-> "tomexample.com"], [firstName |-> "  "] }

OwnerIds == 1..MaxOwners

\* email.includes("@")
HasAt(email) ==
    email \in {"jane@example.com", "tom@example.com", "anna@clinic.com",
               "ben@clinic.com", "carl@clinic.com"}

\* Mutant: blank names pass.
OwnerValidate_BlankPasses(data) ==
    IF "email" \in DOMAIN data /\ ~HasAt(data.email)
    THEN "A valid email is required"
    ELSE ""

\* OwnerService.validate: the message it throws, "" when it accepts.
OwnerValidate(data) ==
    IF "firstName" \in DOMAIN data /\ IsBlank(data.firstName)
    THEN "firstName is required"
    ELSE IF "lastName" \in DOMAIN data /\ IsBlank(data.lastName)
    THEN "lastName is required"
    ELSE IF "email" \in DOMAIN data /\ ~HasAt(data.email)
    THEN "A valid email is required"
    ELSE ""

\* Owner_email_key: the owners other than id that hold the email.
OwnerEmailHolders(email, id) ==
    {o \in DOMAIN owners : o # id /\ owners[o].email = email}

\* prisma.owner.create: the error it throws, NoError when it inserts.
OwnerCreateError(data) ==
    IF {"firstName", "lastName", "email"} \ DOMAIN data # {}
    THEN MissingArgument
    ELSE IF OwnerEmailHolders(data.email, 0) # {}
    THEN UniqueViolation
    ELSE NoError

\* prisma.owner.update: the error it throws, NoError when it updates.
OwnerUpdateError(id, data) ==
    IF id \notin DOMAIN owners
    THEN UpdateNotFound
    ELSE IF "email" \in DOMAIN data /\ OwnerEmailHolders(data.email, id) # {}
    THEN UniqueViolation
    ELSE NoError

\* Rows of other tables that reference the owner.
OwnerReferences(id) ==
    {p \in DOMAIN pets : pets[p].ownerId = id}
        \cup {a \in DOMAIN appointments : appointments[a].ownerId = id}

\* BaseCrudService.create on OwnerService: what it throws, NoError when it
\* returns the DTO.
OwnerServiceCreateThrows(data) ==
    IF OwnerValidate(data) # "" THEN Thrown("", OwnerValidate(data))
    ELSE OwnerCreateError(data)

\* What an afterCreate or afterUpdate hook may do. The defaults of
\* BaseCrudService return, and no service of the repository overrides them.
\* A hook of a subclass may raise: "throws" is a throw in the call itself,
\* "rejects" a promise that rejects later. create and update call the hook
\* without await and outside any try/catch, so a throw propagates and a
\* rejection is not observed.
HookOutcomes == {"returns", "throws", "rejects"}

\* The error of a hook that raises.
HookError == Thrown("", "hook failed")

\* POST /api/owners over a service whose afterCreate does as hook says:
\* BaseCrudService.create validates, writes, calls the hook and returns the
\* DTO; the route maps what create throws.
PostOwnerWith(body, hook) ==
    /\ ownerSeq < MaxOwners
    /\ LET failed == OwnerServiceCreateThrows(body)
           error == IF failed = NoError /\ hook = "throws" THEN HookError ELSE failed
       IN /\ IF failed = NoError
             THEN /\ owners' = [o \in DOMAIN owners \cup {ownerSeq + 1} |->
                                  IF o = ownerSeq + 1 THEN body ELSE owners[o]]
                  /\ ownerSeq' = ownerSeq + 1
             ELSE UNCHANGED <<owners, ownerSeq>>
          /\ response' =
                IF error = NoError
                THEN Reply(201, "Created successfully", ownerSeq + 1)
                ELSE IF IsValidation(error.message)
                THEN Reply(400, error.message, 0)
                ELSE Reply(500, "Failed to create owner", 0)
    /\ UNCHANGED <<emitterVars, visitVars, pets, petSeq, vets, vetSeq, appointments, apptSeq, pending>>

\* POST /api/owners: OwnerService keeps the default afterCreate.
PostOwner(body) == PostOwnerWith(body, "returns")

\* BaseCrudService.update on OwnerService: what it throws.
OwnerServiceUpdateThrows(id, data) ==
    IF OwnerValidate(data) # "" THEN Thrown("", OwnerValidate(data))
    ELSE OwnerUpdateError(id, data)

\* PUT /api/owners/[id] over a service whose afterUpdate does as hook says.
PutOwnerWith(id, body, hook) ==
    /\ LET failed == OwnerServiceUpdateThrows(id, body)
           error == IF failed = NoError /\ hook = "throws" THEN HookError ELSE failed
       IN /\ IF failed = NoError
             THEN owners' = [owners EXCEPT ![id] =
                               [f \in DOMAIN owners[id] |->
                                  IF f \in DOMAIN body THEN body[f] ELSE owners[id][f]]]
             ELSE UNCHANGED owners
          /\ response' =
                IF error = NoError
                THEN Reply(200, "Owner updated successfully", id)
                ELSE IF error.code = "P2025"
                THEN Reply(404, "Owner not found", 0)
                ELSE IF IsValidation(error.message)
                THEN Reply(400, error.message, 0)
                ELSE Reply(500, "Failed to update owner", 0)
    /\ UNCHANGED <<emitterVars, visitVars, ownerSeq, pets, petSeq, vets, vetSeq,
                   appointments, apptSeq, pending>>

\* PUT /api/owners/[id]: OwnerService keeps the default afterUpdate.
PutOwner(id, body) == PutOwnerWith(id, body, "returns")

\* DELETE /api/owners/[id]: BaseCrudService.delete with the default
\* beforeDelete.
DeleteOwner(id) ==
    /\ IF id \notin DOMAIN owners
       THEN /\ response' = Reply(404, "Owner not found", 0)
            /\ UNCHANGED owners
       ELSE IF OwnerReferences(id) # {}
       THEN /\ response' = Reply(500, "Failed to delete owner", 0)
            /\ UNCHANGED owners
       ELSE /\ owners' = [o \in DOMAIN owners \ {id} |-> owners[o]]
            /\ response' = Reply(200, "Owner deleted successfully", id)
    /\ UNCHANGED <<emitterVars, visitVars, ownerSeq, pets, petSeq, vets, vetSeq,
                   appointments, apptSeq, pending>>

(***************************************************************************)
(* Pets: PetService behind POST /api/pets and /api/pets/[id]. Of the Pet   *)
(* columns, name and ownerId are modelled.                                 *)
(***************************************************************************)
\* Bodies of POST /api/pets: pets of owner 1 and of owner 2, a blank name,
\* an ownerId of 0, and bodies that omit a field.
PetBodies ==
    { [name |-> "Bo", ownerId |-> 1], [name |-> "Bo", ownerId |-> 2],
      [name |-> " ", ownerId |-> 1], [name |-> "Bo", ownerId |-> 0],
      [ownerId |-> 1], [name |-> "Bo"] }

\* Bodies of PUT /api/pets/[id].
PetUpdates == { [ownerId |-> 2], [name |-> " "] }

PetIds == 1..MaxPets

\* PetService.validate: the message it throws, "" when it accepts.
PetValidate(data) ==
    IF "name" \in DOMAIN data /\ IsBlank(data.name)
    THEN "Pet name is required"
    ELSE IF "ownerId" \in DOMAIN data /\ data.ownerId = 0
    THEN "A valid ownerId is required"
    ELSE ""

\* prisma.pet.create: the error it throws, NoError when it inserts.
PetCreateError(data) ==
    IF {"name", "ownerId"} \ DOMAIN data # {}
    THEN MissingArgument
    ELSE IF data.ownerId \notin DOMAIN owners
    THEN ForeignKeyViolation
    ELSE NoError

\* prisma.pet.update: the error it throws, NoError when it updates.
PetUpdateError(id, data) ==
    IF id \notin DOMAIN pets
    THEN UpdateNotFound
    ELSE IF "ownerId" \in DOMAIN data /\ data.ownerId \notin DOMAIN owners
    THEN ForeignKeyViolation
    ELSE NoError

\* Mutant: only the visits hold a pet.
PetReferences_VisitsOnly(id) ==
    {v \in DOMAIN visits : visits[v].petId = id}

\* Rows of other tables that reference the pet.
PetReferences(id) ==
    {v \in DOMAIN visits : visits[v].petId = id}
        \cup {a \in DOMAIN appointments : appointments[a].petId = id}

\* BaseCrudService.create on PetService: what it throws.
PetServiceCreateThrows(data) ==
    IF PetValidate(data) # "" THEN Thrown("", PetValidate(data))
    ELSE PetCreateError(data)

\* POST /api/pets.
PostPet(body) ==
    /\ petSeq < MaxPets
    /\ LET error == PetServiceCreateThrows(body)
       IN IF error = NoError
          THEN /\ pets' = [q \in DOMAIN pets \cup {petSeq + 1} |->
                             IF q = petSeq + 1 THEN body ELSE pets[q]]
               /\ petSeq' = petSeq + 1
               /\ response' = Reply(201, "Created successfully", petSeq + 1)
          ELSE /\ response' =
                     IF IsValidation(error.message)
                     THEN Reply(400, error.message, 0)
                     ELSE Reply(500, "Failed to create pet", 0)
               /\ UNCHANGED <<pets, petSeq>>
    /\ UNCHANGED <<emitterVars, visitVars, owners, ownerSeq, vets, vetSeq, appointments, apptSeq, pending>>

\* BaseCrudService.update on PetService: what it throws.
PetServiceUpdateThrows(id, data) ==
    IF PetValidate(data) # "" THEN Thrown("", PetValidate(data))
    ELSE PetUpdateError(id, data)

\* PUT /api/pets/[id].
PutPet(id, body) ==
    /\ LET error == PetServiceUpdateThrows(id, body)
       IN IF error = NoError
          THEN /\ pets' = [pets EXCEPT ![id] =
                             [f \in DOMAIN pets[id] |->
                                IF f \in DOMAIN body THEN body[f] ELSE pets[id][f]]]
               /\ response' = Reply(200, "Pet updated successfully", id)
          ELSE /\ response' =
                     IF error.code = "P2025"
                     THEN Reply(404, "Pet not found", 0)
                     ELSE IF IsValidation(error.message)
                     THEN Reply(400, error.message, 0)
                     ELSE Reply(500, "Failed to update pet", 0)
               /\ UNCHANGED pets
    /\ UNCHANGED <<emitterVars, visitVars, owners, ownerSeq, petSeq, vets, vetSeq,
                   appointments, apptSeq, pending>>

\* DELETE /api/pets/[id].
DeletePet(id) ==
    /\ IF id \notin DOMAIN pets
       THEN /\ response' = Reply(404, "Pet not found", 0)
            /\ UNCHANGED pets
       ELSE IF PetReferences(id) # {}
       THEN /\ response' = Reply(500, "Failed to delete pet", 0)
            /\ UNCHANGED pets
       ELSE /\ pets' = [q \in DOMAIN pets \ {id} |-> pets[q]]
            /\ response' = Reply(200, "Pet deleted successfully", id)
    /\ UNCHANGED <<emitterVars, visitVars, owners, ownerSeq, petSeq, vets, vetSeq,
                   appointments, apptSeq, pending>>

(***************************************************************************)
(* Vets: the routes /api/vets and /api/vets/[id] call the store directly.  *)
(***************************************************************************)
\* Bodies of POST /api/vets and PUT /api/vets/[id].
VetBodies ==
    { [firstName |-> "Carl", lastName |-> "Cole", email |-> "carl@clinic.com"],
      [firstName |-> "Carl", lastName |-> "Cole", email |-> "anna@clinic.com"],
      [firstName |-> " ", lastName |-> "Cole", email |-> "carl@clinic.com"],
      [firstName |-> "Carl", lastName |-> "Cole"] }

VetUpdates == { [email |-> "anna@clinic.com"], [email |-> "carl@clinic.com"] }

VetIds == 1..MaxVets

\* Vet_email_key: the vets other than id that hold the email.
VetEmailHolders(email, id) ==
    {v \in DOMAIN vets : v # id /\ vets[v].email = email}

\* Rows of other tables that reference the vet.
VetReferences(id) ==
    {v \in DOMAIN visits : visits[v].vetId = id}
        \cup {a \in DOMAIN appointments : appointments[a].vetId = id}

\* POST /api/vets.
PostVet(body) ==
    /\ vetSeq < MaxVets
    /\ IF \/ "firstName" \notin DOMAIN body \/ IsBlank(body.firstName)
          \/ "lastName" \notin DOMAIN body \/ IsBlank(body.lastName)
       THEN /\ response' = Reply(400, "firstName and lastName are required", 0)
            /\ UNCHANGED <<vets, vetSeq>>
       ELSE IF "email" \notin DOMAIN body \/ ~HasAt(body.email)
       THEN /\ response' = Reply(400, "A valid email is required", 0)
            /\ UNCHANGED <<vets, vetSeq>>
       ELSE IF VetEmailHolders(body.email, 0) # {}
       THEN /\ response' = Reply(409, "A vet with that email already exists", 0)
            /\ UNCHANGED <<vets, vetSeq>>
       ELSE /\ vets' = [v \in DOMAIN vets \cup {vetSeq + 1} |->
                          IF v = vetSeq + 1 THEN body ELSE vets[v]]
            /\ vetSeq' = vetSeq + 1
            /\ response' = Reply(201, "Created successfully", vetSeq + 1)
    /\ UNCHANGED <<emitterVars, visitVars, owners, ownerSeq, pets, petSeq, appointments, apptSeq, pending>>

\* PUT /api/vets/[id].
PutVet(id, body) ==
    /\ IF id \notin DOMAIN vets
       THEN /\ response' = Reply(404, "Vet not found", 0)
            /\ UNCHANGED vets
       ELSE IF "email" \in DOMAIN body /\ VetEmailHolders(body.email, id) # {}
       THEN /\ response' = Reply(409, "A vet with that email already exists", 0)
            /\ UNCHANGED vets
       ELSE /\ vets' = [vets EXCEPT ![id] =
                          [f \in DOMAIN vets[id] |->
                             IF f \in DOMAIN body THEN body[f] ELSE vets[id][f]]]
            /\ response' = Reply(200, "Vet updated successfully", id)
    /\ UNCHANGED <<emitterVars, visitVars, owners, ownerSeq, pets, petSeq, vetSeq,
                   appointments, apptSeq, pending>>

\* DELETE /api/vets/[id].
DeleteVet(id) ==
    /\ IF id \notin DOMAIN vets
       THEN /\ response' = Reply(404, "Vet not found", 0)
            /\ UNCHANGED vets
       ELSE IF VetReferences(id) # {}
       THEN /\ response' = Reply(500, "Failed to delete vet", 0)
            /\ UNCHANGED vets
       ELSE /\ vets' = [v \in DOMAIN vets \ {id} |-> vets[v]]
            /\ response' = Reply(200, "Vet deleted successfully", id)
    /\ UNCHANGED <<emitterVars, visitVars, owners, ownerSeq, pets, petSeq, vetSeq,
                   appointments, apptSeq, pending>>

(***************************************************************************)
(* Visits: VisitService behind /api/visits/[id].                           *)
(***************************************************************************)
\* Bodies of PUT /api/visits/[id].
VisitUpdates == { [petId |-> 2], [vetId |-> 2], [diagnosis |-> " "] }

VisitIds == 1..MaxVisits

\* VisitService.validate: the message it throws, "" when it accepts.
VisitValidate(data) ==
    IF "diagnosis" \in DOMAIN data /\ IsBlank(data.diagnosis)
    THEN "Diagnosis is required"
    ELSE IF "petId" \in DOMAIN data /\ data.petId = 0
    THEN "A valid petId is required"
    ELSE IF "vetId" \in DOMAIN data /\ data.vetId = 0
    THEN "A valid vetId is required"
    ELSE ""

\* prisma.visit.update: the error it throws, NoError when it updates.
VisitUpdateError(id, data) ==
    IF id \notin DOMAIN visits
    THEN UpdateNotFound
    ELSE IF \/ "petId" \in DOMAIN data /\ data.petId \notin DOMAIN pets
            \/ "vetId" \in DOMAIN data /\ data.vetId \notin DOMAIN vets
    THEN ForeignKeyViolation
    ELSE NoError

\* Mutant: no junction row restricts the delete of a visit.
VisitReferences_None(id) == {}

\* Rows of the junction table that reference the visit.
VisitReferences(id) == {j \in DOMAIN visitServices : visitServices[j].visitId = id}

\* BaseCrudService.update on VisitService: what it throws.
VisitServiceUpdateThrows(id, data) ==
    IF VisitValidate(data) # "" THEN Thrown("", VisitValidate(data))
    ELSE VisitUpdateError(id, data)

\* PUT /api/visits/[id].
PutVisit(id, body) ==
    /\ LET error == VisitServiceUpdateThrows(id, body)
       IN IF error = NoError
          THEN /\ visits' = [visits EXCEPT ![id] =
                               [f \in DOMAIN visits[id] |->
                                  IF f \in DOMAIN body THEN body[f] ELSE visits[id][f]]]
               /\ response' = Reply(200, "Visit updated successfully", id)
          ELSE /\ response' =
                     IF error.code = "P2025"
                     THEN Reply(404, "Visit not found", 0)
                     ELSE IF IsValidation(error.message)
                     THEN Reply(400, error.message, 0)
                     ELSE Reply(500, "Failed to update visit", 0)
               /\ UNCHANGED visits
    /\ UNCHANGED <<emitterVars, partyVars, appointments, apptSeq, pending,
                   services, visitSeq, visitServices, visitServiceSeq>>

\* DELETE /api/visits/[id].
DeleteVisit(id) ==
    /\ IF id \notin DOMAIN visits
       THEN /\ response' = Reply(404, "Visit not found", 0)
            /\ UNCHANGED visits
       ELSE IF VisitReferences(id) # {}
       THEN /\ response' = Reply(500, "Failed to delete visit", 0)
            /\ UNCHANGED visits
       ELSE /\ visits' = [v \in DOMAIN visits \ {id} |-> visits[v]]
            /\ response' = Reply(200, "Visit deleted successfully", id)
    /\ UNCHANGED <<emitterVars, partyVars, appointments, apptSeq, pending,
                   services, visitSeq, visitServices, visitServiceSeq>>

(***************************************************************************)
(* Sort strategies (responseFactory.js) and the list handler GET           *)
(* /api/owners.                                                            *)
(***************************************************************************)
\* A JavaScript number: an integer or NaN.
Num(n) == [nan |-> FALSE, n |-> n]
NaN == [nan |-> TRUE, n |-> 0]

\* parseInt(text, 10)
ParseInt(text) ==
    CASE text = "1" -> Num(1)
      [] text = "2" -> Num(2)
      [] text = "10" -> Num(10)
      [] text = "0" -> Num(0)
      [] text = "-3" -> Num(-3)
      [] text = "1000" -> Num(1000)
      [] text = "2.7" -> Num(2)
      [] text \in {"", "abc"} -> NaN

\* Math.max and Math.min: NaN when an argument is NaN.
MathMax(a, b) ==
    IF a.nan \/ b.nan THEN NaN ELSE IF a.n >= b.n THEN a ELSE b

MathMin(a, b) ==
    IF a.nan \/ b.nan THEN NaN ELSE IF a.n <= b.n THEN a ELSE b

\* Math.ceil(total / limit), for a limit of at least 1 or NaN.
CeilDiv(total, limit) ==
    IF limit.nan THEN NaN ELSE Num((total + limit.n - 1) \div limit.n)

\* searchParams.get(key) ?? fallback
Param(query, key, fallback) ==
    IF key \in DOMAIN query THEN query[key] ELSE fallback

\* value.toLowerCase(), on the names in use.
ToLowerCase(value) ==
    CASE value = "" -> ""
      [] value = "Rex" -> "rex"
      [] value = "bella" -> "bella"
      [] value = "Bella" -> "bella"

\* The lower-case names in use, in the order localeCompare gives them.
Collation == <<"", "bella", "rex">>

\* a.localeCompare(b), as a sign.
LocaleCompare(a, b) ==
    LET rank(v) == CHOOSE i \in DOMAIN Collation : Collation[i] = v
    IN IF rank(a) < rank(b) THEN -1 ELSE IF rank(a) > rank(b) THEN 1 ELSE 0

\* [...data].sort(compare) for a comparator that is a consistent ordering;
\* compare[i][j] is what the comparator returns for data[i] and data[j]. The
\* sort is stable, so an item goes after the items that compare below it and
\* the items that compare equal to it and stand before it.
StableSort(data, compare) ==
    LET n == Len(data)
        position(i) ==
            Cardinality({j \in 1..n :
                \/ compare[j][i] < 0
                \/ compare[j][i] = 0 /\ j < i}) + 1
    IN [k \in 1..n |-> data[CHOOSE i \in 1..n : position(i) = k]]

\* (a.name ?? "").toLowerCase()
NameKey(item) ==
    IF "name" \in DOMAIN item THEN ToLowerCase(item.name) ELSE ""

\* SortByName.sort
SortByName(data, order) ==
    StableSort(data,
        [i \in DOMAIN data |-> [j \in DOMAIN data |->
            LET cmp == LocaleCompare(NameKey(data[i]), NameKey(data[j]))
            IN IF order = "desc" THEN -cmp ELSE cmp]])

\* rawA ? new Date(rawA).getTime() : Infinity, with raw = date ?? createdAt.
\* The dates in use all parse.
TimeOf(item) ==
    LET raw == IF "date" \in DOMAIN item THEN item.date
               ELSE IF "createdAt" \in DOMAIN item THEN item.createdAt
               ELSE ""
    IN IF raw = "" THEN [inf |-> TRUE, t |-> 0] ELSE [inf |-> FALSE, t |-> ParseDate(raw)]

\* x - y as the sort reads it: its sign, 0 for the NaN of Infinity - Infinity.
TimeDifference(x, y) ==
    IF x.inf /\ y.inf THEN 0
    ELSE IF x.inf THEN 1
    ELSE IF y.inf THEN -1
    ELSE IF x.t > y.t THEN 1 ELSE IF x.t < y.t THEN -1 ELSE 0

\* SortByDate.sort
SortByDate(data, order) ==
    StableSort(data,
        [i \in DOMAIN data |-> [j \in DOMAIN data |->
            IF order = "desc" THEN TimeDifference(TimeOf(data[j]), TimeOf(data[i]))
            ELSE TimeDifference(TimeOf(data[i]), TimeOf(data[j]))]])

\* Number(a.price ?? a.totalCost ?? 0). A price that is no number, such as
\* the string "abc", is written as the field priceText; Number gives NaN for it.
PriceOf(item) ==
    IF "priceText" \in DOMAIN item THEN NaN
    ELSE IF "price" \in DOMAIN item THEN Num(item.price)
    ELSE IF "totalCost" \in DOMAIN item THEN Num(item.totalCost)
    ELSE Num(0)

\* x - y as the sort reads it: a NaN result counts as 0.
PriceDifference(x, y) ==
    IF x.nan \/ y.nan THEN 0 ELSE x.n - y.n

\* SortByPrice.sort
SortByPrice(data, order) ==
    StableSort(data,
        [i \in DOMAIN data |-> [j \in DOMAIN data |->
            IF order = "desc" THEN PriceDifference(PriceOf(data[j]), PriceOf(data[i]))
            ELSE PriceDifference(PriceOf(data[i]), PriceOf(data[j]))]])

\* Mutant: an unrecognised field falls to the date strategy.
getSortStrategy_DefaultDate(field) ==
    IF field \in {"price", "totalCost"} THEN "SortByPrice"
    ELSE IF field = "name" THEN "SortByName"
    ELSE "SortByDate"

\* getSortStrategy
getSortStrategy(field) ==
    IF field \in {"date", "createdAt"} THEN "SortByDate"
    ELSE IF field \in {"price", "totalCost"} THEN "SortByPrice"
    ELSE "SortByName"

\* SortContext.executeSort
executeSort(strategy, data, order) ==
    CASE strategy = "SortByDate" -> SortByDate(data, order)
      [] strategy = "SortByPrice" -> SortByPrice(data, order)
      [] strategy = "SortByName" -> SortByName(data, order)

\* Collections handed to SortByDate: items dated by date, by createdAt, or
\* not at all.
DateItems ==
    { [id |-> 1, date |-> "2025-04-10"], [id |-> 2, date |-> "2025-04-11"],
      [id |-> 3, createdAt |-> "2025-04-10T12:00:00Z"], [id |-> 4] }

\* Collections handed to SortByName: names that differ in case only, and an
\* item without a name.
NameItems ==
    { [id |-> 1, name |-> "Rex"], [id |-> 2, name |-> "bella"],
      [id |-> 3, name |-> "Bella"], [id |-> 4] }

\* The sequences over a set of items, up to MaxItems long.
Collections(items) == UNION {[1..n -> items] : n \in 0..MaxItems}

Orders == {"asc", "desc"}

\* What a sort strategy returned, with what it was given.
Sorted(strategy, input, order, data) ==
    [status |-> 0, text |-> strategy, id |-> 0, input |-> input, order |-> order,
     data |-> data]

\* A call of SortContext.executeSort with the date strategy.
SortDates(input, order) ==
    /\ response' = Sorted("SortByDate", input, order,
                          executeSort(getSortStrategy("date"), input, order))
    /\ UNCHANGED <<emitterVars, visitVars, partyVars, appointments, apptSeq, pending>>

\* A call of SortContext.executeSort with the name strategy.
SortNames(input, order) ==
    /\ response' = Sorted("SortByName", input, order,
                          executeSort(getSortStrategy("name"), input, order))
    /\ UNCHANGED <<emitterVars, visitVars, partyVars, appointments, apptSeq, pending>>

\* Collections handed to a strategy picked by key: items that the three
\* strategies order differently.
MixedItems ==
    { [id |-> 1, name |-> "Rex", date |-> "2025-04-10", price |-> 30],
      [id |-> 2, name |-> "bella", date |-> "2025-04-11", price |-> 45],
      [id |-> 3, name |-> "Bella", price |-> 10],
      [id |-> 4, date |-> "2025-04-10T12:00:00Z"] }

\* Items handed to SortByPrice: priced, with a totalCost only (a visit DTO),
\* with neither, and with a price that is no number.
PricedItems ==
    { [id |-> 1, price |-> 30], [id |-> 2, price |-> 10],
      [id |-> 3, totalCost |-> 20], [id |-> 4, totalCost |-> 45], [id |-> 5] }

UnpricedItem == [id |-> 6, priceText |-> "abc"]

\* Collections handed to SortByPrice. The item whose price is no number comes
\* in pairs only: in a longer collection its comparisons, all 0, need not
\* agree with the others, and the order is then left to the engine.
PriceCollections ==
    Collections(PricedItems)
        \cup {<<a, b>> : a \in {UnpricedItem}, b \in PricedItems}
        \cup {<<b, a>> : a \in {UnpricedItem}, b \in PricedItems}

\* Sort keys a request may name: the five of getSortStrategy and others.
SortKeys == {"name", "date", "createdAt", "price", "totalCost", "id", "fullName", ""}

\* A call of new SortContext(getSortStrategy(key)).executeSort(input, order)
\* that has not returned: its arguments.
SortCall(key, input, order) ==
    [status |-> 0, text |-> "", id |-> 0, key |-> key, input |-> input, order |-> order]

\* new SortContext(getSortStrategy(key)).executeSort(input, order), as the
\* list routes call it: the call returns.
SortBy ==
    /\ "key" \in DOMAIN response /\ "data" \notin DOMAIN response
    /\ response' = [status |-> 0, text |-> getSortStrategy(response.key), id |-> 0,
                    key |-> response.key, input |-> response.input,
                    order |-> response.order,
                    data |-> executeSort(getSortStrategy(response.key),
                                         response.input, response.order)]
    /\ UNCHANGED <<emitterVars, visitVars, partyVars, appointments, apptSeq, pending>>

\* `${owner.firstName} ${owner.lastName}`, on the names in use.
FullName(firstName, lastName) ==
    CASE firstName = "Jane" /\ lastName = "Smith" -> "Jane Smith"
      [] firstName = "Tom" /\ lastName = "Jones" -> "Tom Jones"
      [] firstName = "Ann" /\ lastName = "Lee" -> "Ann Lee"

\* OwnerAdapter.toDTO
OwnerToDTO(id) ==
    [id |-> id,
     fullName |-> FullName(owners[id].firstName, owners[id].lastName),
     firstName |-> owners[id].firstName,
     lastName |-> owners[id].lastName,
     email |-> owners[id].email,
     petCount |-> Cardinality({p \in DOMAIN pets : pets[p].ownerId = id})]

\* Query strings of GET /api/owners. The owners' createdAt is not modelled,
\* so no query sorts by date.
OwnerQueries ==
    { <<>>, [page |-> "2"], [page |-> "0"], [page |-> "-3"], [page |-> "abc"],
      [limit |-> "1"], [limit |-> "0"], [limit |-> "1000"], [limit |-> ""],
      [page |-> "2", limit |-> "1"], [page |-> "2.7", limit |-> "1"],
      [sortBy |-> "name", order |-> "desc"], [sortBy |-> "price"] }

\* The orders in which the store may return the rows of a set of ids: a
\* findMany without orderBy leaves the order to the store.
Orderings(ids) ==
    {rows \in [1..Cardinality(ids) -> ids] : \A i, j \in DOMAIN rows : rows[i] = rows[j] => i = j}

\* skip and take applied to the rows the store orders.
Window(rows, skip, take) ==
    [k \in 1..(IF Len(rows) - skip < 0 THEN 0
               ELSE IF Len(rows) - skip < take THEN Len(rows) - skip ELSE take) |->
        rows[skip + k]]

\* The response of GET /api/owners. rows is the order the store gives the
\* owners; rejects tells whether the store rejects a skip or take of NaN or
\* reads it as absent.
OwnersReply(query, rows, rejects) ==
    LET sortBy == Param(query, "sortBy", "name")
        order == Param(query, "order", "asc")
        page == MathMax(Num(1), ParseInt(Param(query, "page", "1")))
        limit == MathMin(Num(100), MathMax(Num(1), ParseInt(Param(query, "limit", "10"))))
        total == Cardinality(DOMAIN owners)
        skip == IF page.nan \/ limit.nan THEN 0 ELSE (page.n - 1) * limit.n
        take == IF limit.nan THEN Len(rows) ELSE limit.n
        records == Window(rows, skip, take)
        dtos == [k \in DOMAIN records |-> OwnerToDTO(records[k])]
    IN IF (page.nan \/ limit.nan) /\ rejects
       THEN Reply(500, "Failed to fetch owners", 0)
       ELSE [status |-> 200, text |-> "", id |-> 0,
             data |-> executeSort(getSortStrategy(sortBy), dtos, order),
             pagination |-> [total |-> total, page |-> page, limit |-> limit,
                             totalPages |-> CeilDiv(total, limit)]]

\* GET /api/owners
GetOwners(query, rows, rejects) ==
    /\ response' = OwnersReply(query, rows, rejects)
    /\ UNCHANGED <<emitterVars, visitVars, partyVars, appointments, apptSeq, pending>>

\* Query strings of GET /api/visits. No query filters by pet, vet or date:
\* every visit matches.
VisitQueries ==
    { <<>>, [page |-> "2"], [limit |-> "1"], [page |-> "2", limit |-> "1"],
      [sortBy |-> "price"], [sortBy |-> "price", order |-> "asc"],
      [sortBy |-> "price", limit |-> "1"],
      [sortBy |-> "price", order |-> "asc", limit |-> "1"],
      [sortBy |-> "price", order |-> "asc", limit |-> "1", page |-> "2"],
      [sortBy |-> "price", page |-> "abc"] }

\* orderBy { date: "desc" }: the orders in which the store may return the
\* visits; visits of one instant come in the order the store picks.
DateDescending(ids) ==
    {rows \in Orderings(ids) :
        \A i, j \in DOMAIN rows : i < j => visits[rows[i]].date >= visits[rows[j]].date}

\* The response of GET /api/visits. rows is the order the store gives the
\* visits; rejects tells whether the store rejects a skip or take of NaN or
\* reads it as absent.
VisitsReply(query, rows, rejects) ==
    LET sortBy == Param(query, "sortBy", "date")
        order == Param(query, "order", "desc")
        page == MathMax(Num(1), ParseInt(Param(query, "page", "1")))
        limit == MathMin(Num(100), MathMax(Num(1), ParseInt(Param(query, "limit", "10"))))
        total == Cardinality(DOMAIN visits)
        skip == IF page.nan \/ limit.nan THEN 0 ELSE (page.n - 1) * limit.n
        take == IF limit.nan THEN Len(rows) ELSE limit.n
        records == Window(rows, skip, take)
        dtos == [k \in DOMAIN records |->
                    VisitToDTO(TxFindVisit(visits, visitServices, records[k]))]
    IN IF (page.nan \/ limit.nan) /\ rejects
       THEN Reply(500, "Failed to fetch visits", 0)
       ELSE [status |-> 200, text |-> "", id |-> 0,
             data |-> executeSort(getSortStrategy(sortBy), dtos, order),
             pagination |-> [total |-> total, page |-> page, limit |-> limit,
                             totalPages |-> CeilDiv(total, limit)]]

\* GET /api/visits
GetVisits(query, rows, rejects) ==
    /\ response' = VisitsReply(query, rows, rejects)
    /\ UNCHANGED <<emitterVars, visitVars, partyVars, appointments, apptSeq, pending>>

(***************************************************************************)
(* calcAge (adapter.js). A calendar date is a record of year, month and    *)
(* day; an instant is a UTC calendar date with an hour of the day. The     *)
(* dates in use lie between 2 May and 29 June.                             *)
(***************************************************************************)
CalendarDate(year, month, day) == [year |-> year, month |-> month, day |-> day]

\* The day before and the day after a date of May or June.
PrevDay(date) ==
    IF date.day > 1 THEN [date EXCEPT !.day = date.day - 1]
    ELSE CalendarDate(date.year, date.month - 1, 31)

NextDay(date) ==
    IF date.month = 5 /\ date.day = 31 THEN CalendarDate(date.year, 6, 1)
    ELSE [date EXCEPT !.day = date.day + 1]

\* Offsets from UTC, in hours, of the zones the server may run in.
Zones == {-5, 0, 3}

\* getFullYear, getMonth and getDate read an instant in the server's zone:
\* the calendar date of the instant there.
LocalDate(instant, zone) ==
    IF instant.hour + zone < 0 THEN PrevDay(instant.date)
    ELSE IF instant.hour + zone >= 24 THEN NextDay(instant.date)
    ELSE instant.date

\* new Date("YYYY-MM-DD"): midnight UTC of the date.
UtcMidnight(date) == [date |-> date, hour |-> 0]

\* Birth dates of pets, and the instants at which a DTO is built.
BirthDates ==
    { CalendarDate(2020, 6, 1), CalendarDate(2020, 5, 31), CalendarDate(2023, 6, 2),
      CalendarDate(2024, 5, 31) }

Instants ==
    { [date |-> date, hour |-> hour] :
        date \in {CalendarDate(2024, 5, 31), CalendarDate(2024, 6, 1), CalendarDate(2024, 6, 2)},
        hour \in {0, 12, 23} }

\* calcAge(birthDate) evaluated at the instant now on a server in zone.
calcAge(birthDate, now, zone) ==
    LET birth == LocalDate(UtcMidnight(birthDate), zone)
        today == LocalDate(now, zone)
        beforeBirthday ==
            \/ today.month < birth.month
            \/ today.month = birth.month /\ today.day < birth.day
    IN (today.year - birth.year) - (IF beforeBirthday THEN 1 ELSE 0)

\* A call of calcAge that has not returned: its argument, the clock and the
\* zone.
AgeCall(birthDate, now, zone) ==
    [status |-> 0, text |-> "calcAge", id |-> 0,
     birthDate |-> birthDate, now |-> now, zone |-> zone]

\* PetAdapter.toDTO computes the age: the call returns.
CalcAge ==
    /\ "birthDate" \in DOMAIN response /\ "age" \notin DOMAIN response
    /\ response' = [status |-> 0, text |-> "calcAge", id |-> 0,
                    birthDate |-> response.birthDate, now |-> response.now,
                    zone |-> response.zone,
                    age |-> calcAge(response.birthDate, response.now, response.zone)]
    /\ UNCHANGED <<emitterVars, visitVars, partyVars, appointments, apptSeq, pending>>

(***************************************************************************)
(* POST /api/auth/login. No route writes the User table: it holds the      *)
(* seeded administrator. JWT_SECRET is set.                                *)
(***************************************************************************)
\* A JSON value of a request body: a string or a number, by its text.
Str(text) == [type |-> "string", value |-> text]
Number(text) == [type |-> "number", value |-> text]

\* !value
Falsy(value) == value \in {Str(""), Number("0")}

\* bcrypt.hash(password): a value that is not the password.
Hashed(text) == <<"bcrypt", text>>

\* The User table, by email.
Users ==
    [email \in {"admin@vetcare.lt"} |->
        [id |-> 1, email |-> email, name |-> "Admin", role |-> "admin",
         password |-> Hashed("admin123")]]

\* Bodies of POST /api/auth/login: the administrator's email and others, with
\* the right password, wrong ones, empty ones and numbers.
LoginBodies ==
    { [email |-> email, password |-> password] :
        email \in {"admin@vetcare.lt", "ADMIN@vetcare.lt", "jane@example.com",
                   "tom@example.com", "nobody@vetcare.lt", ""},
        password \in {Str("admin123"), Str("Admin123"), Str("admin1234"), Str("wrong"),
                      Str(" "), Str(""), Number("12345"), Number("1"), Number("0")} }

\* comparePassword: bcrypt.compare resolves to true or false for a string and
\* rejects ("Illegal arguments") for any other value.
comparePassword(password, hash) ==
    IF password.type # "string" THEN "throws"
    ELSE IF hash = Hashed(password.value) THEN "true" ELSE "false"

\* generateToken: the signed payload.
generateToken(user) ==
    [signed |-> [id |-> user.id, email |-> user.email, role |-> user.role],
     expiresIn |-> "24h"]

\* The status and the JSON body POST /api/auth/login answers with.
LoginReply(body) ==
    IF body.email = "" \/ Falsy(body.password)
    THEN [status |-> 400,
          json |-> [success |-> FALSE, error |-> "Email and password are required"]]
    ELSE IF body.email \notin DOMAIN Users
    THEN [status |-> 401, json |-> [success |-> FALSE, error |-> "Invalid email or password"]]
    ELSE LET user == Users[body.email]
             valid == comparePassword(body.password, user.password)
         IN IF valid = "throws"
            THEN [status |-> 500, json |-> [success |-> FALSE, error |-> "Internal server error"]]
            ELSE IF valid = "false"
            THEN [status |-> 401,
                  json |-> [success |-> FALSE, error |-> "Invalid email or password"]]
            ELSE [status |-> 200,
                  json |-> [success |-> TRUE, token |-> generateToken(user),
                            user |-> [id |-> user.id, email |-> user.email,
                                      name |-> user.name, role |-> user.role]]]

\* A login request that has not been answered.
LoginCall(body) == [status |-> 0, text |-> "login", id |-> 0, body |-> body]

\* POST /api/auth/login answers.
PostLogin ==
    /\ "body" \in DOMAIN response /\ "json" \notin DOMAIN response
    /\ response' = [status |-> LoginReply(response.body).status, text |-> "login", id |-> 0,
                    body |-> response.body, json |-> LoginReply(response.body).json]
    /\ UNCHANGED <<emitterVars, visitVars, partyVars, appointments, apptSeq, pending>>

(***************************************************************************)
(* The observer registry: EventEmitter.                                   *)
(***************************************************************************)

\* The callbacks the scenarios hand to subscribe: the two observers of the
\* module, and one that raises when it is invoked.
Listeners == {"logEvent", "updateStats", "failing"}

\* A value that is not a function.
NotAFunction == "42"

\* listener(data) raises.
ListenerThrows(listener) == listener = "failing"

\* Set.prototype.add: the value goes last unless it is already a member.
SetAdd(set, value) ==
    IF value \in Range(set) THEN set ELSE Append(set, value)

\* Set.prototype.delete: the other members keep their order.
SetDelete(set, value) == SelectSeq(set, LAMBDA member : member # value)

\* The loop of notify without its try/catch: the first exception leaves it.
RECURSIVE Deliver_Unguarded(_)
Deliver_Unguarded(queue) ==
    IF queue = <<>> THEN [delivered |-> <<>>, error |-> NoError]
    ELSE IF ListenerThrows(Head(queue))
         THEN [delivered |-> <<Head(queue)>>,
               error |-> Thrown("", "listener failed")]
         ELSE LET rest == Deliver_Unguarded(Tail(queue))
              IN  [delivered |-> <<Head(queue)>> \o rest.delivered,
                   error |-> rest.error]

\* The loop of notify: the listeners that are invoked, in order, and the
\* exception that leaves the loop. Each listener(data) runs inside
\* try/catch: what it throws is logged and the loop goes on.
RECURSIVE Deliver(_)
Deliver(queue) ==
    IF queue = <<>> THEN [delivered |-> <<>>, error |-> NoError]
    ELSE LET rest == Deliver(Tail(queue))
         IN  [delivered |-> <<Head(queue)>> \o rest.delivered,
              error |-> rest.error]

\* emitter.subscribe(eventName, listener)
Subscribe(eventName, listener) ==
    /\ IF listener = NotAFunction
       THEN /\ response' = Thrown("TypeError", "Listener must be a function")
            /\ UNCHANGED listeners
       ELSE /\ listeners' = [listeners EXCEPT
                                ![eventName] = SetAdd(listeners[eventName], listener)]
            /\ response' = NoError
    /\ UNCHANGED <<visitVars, partyVars, appointments, apptSeq, pending, calls>>

\* emitter.unsubscribe(eventName, listener)
Unsubscribe(eventName, listener) ==
    /\ listeners' = [listeners EXCEPT
                        ![eventName] = SetDelete(listeners[eventName], listener)]
    /\ response' = NoError
    /\ UNCHANGED <<visitVars, partyVars, appointments, apptSeq, pending, calls>>

\* emitter.notify(eventName, data)
Notify(eventName) ==
    /\ calls' = [event |-> eventName,
                 delivered |-> Deliver(listeners[eventName]).delivered]
    /\ response' = Deliver(listeners[eventName]).error
    /\ UNCHANGED <<visitVars, partyVars, appointments, apptSeq, pending, listeners>>

(***************************************************************************)
(* Specifications.                                                         *)
(***************************************************************************)
InitStore ==
    /\ owners = [id \in {1} |->
                   [firstName |-> "Jane", lastName |-> "Smith",
                    email |-> "jane@example.com"]]
    /\ ownerSeq = 1
    /\ pets = [id \in {1} |-> [name |-> "Rex", ownerId |-> 1]]
    /\ petSeq = 1
    /\ vets = [id \in {1, 2} |->
                 IF id = 1
                 THEN [firstName |-> "Anna", lastName |-> "Brown",
                       email |-> "anna@clinic.com"]
                 ELSE [firstName |-> "Ben", lastName |-> "Adams",
                       email |-> "ben@clinic.com"]]
    /\ vetSeq = 2
    /\ appointments = <<>>
    /\ apptSeq = 0
    /\ pending = [p \in Procs |-> Idle]
    /\ services = [id \in {1, 2} |->
                     IF id = 1 THEN [name |-> "Vaccination", price |-> 30]
                               ELSE [name |-> "Checkup", price |-> 45]]
    /\ visits = <<>>
    /\ visitSeq = 0
    /\ listeners = [event \in EventNames |-> <<>>]
    /\ calls = NoCalls
    /\ visitServices = <<>>
    /\ visitServiceSeq = 0

Init ==
    /\ InitStore
    /\ response = Reply(0, "", 0)

\* The requests of the service, those of two-step handlers issued by the
\* requests of P.
Requests(P) ==
    \/ \E p \in P, body \in AppointmentBodies : PostAppointmentCheck(p, body)
    \/ \E p \in P : PostAppointmentWrite(p)
    \/ \E data \in CreateData : AppointmentServiceCreate(data)
    \/ \E id \in ApptIds, body \in UpdateBodies : PutAppointment(id, body)
    \/ \E p \in P, id \in ApptIds : DeleteAppointmentCheck(p, id)
    \/ \E p \in P : DeleteAppointmentWrite(p)

\* One two-step handler at a time: between its two awaits only single-await
\* requests run.
Next == Requests({"r1"})

Spec == Init /\ [][Next]_vars

\* Two POST /api/appointments requests interleaved at their awaits, and
\* nothing else.
NextRace ==
    \/ \E p \in Procs, body \in AppointmentBodies : PostAppointmentCheck(p, body)
    \/ \E p \in Procs : PostAppointmentWrite(p)

SpecRace == Init /\ [][NextRace]_vars

\* Bookings only: POST /api/appointments and PUT /api/appointments/:id.
NextBooking ==
    \/ \E body \in AppointmentBodies : PostAppointmentCheck("r1", body)
    \/ PostAppointmentWrite("r1")
    \/ \E id \in ApptIds, body \in UpdateBodies : PutAppointment(id, body)

SpecBooking == Init /\ [][NextBooking]_vars

\* A delete of a stored appointment interleaved with status updates: the
\* appointments come from POST /api/appointments, and between the delete's
\* beforeDelete and its write only PUT requests change them.
NextDeleteRace ==
    \/ \E body \in AppointmentBodies : PostAppointmentCheck("r1", body)
    \/ PostAppointmentWrite("r1")
    \/ \E id \in ApptIds, body \in UpdateBodies : PutAppointment(id, body)
    \/ \E id \in DOMAIN appointments : DeleteAppointmentCheck("r2", id)
    \/ DeleteAppointmentWrite("r2")

SpecDeleteRace == Init /\ [][NextDeleteRace]_vars

\* Requests whose input carries a status.
NextStatus ==
    \/ \E body \in StatusBodies : PostAppointmentCheck("r1", body)
    \/ PostAppointmentWrite("r1")
    \/ \E data \in StatusBodies : AppointmentServiceCreate(data)
    \/ \E id \in ApptIds, body \in StatusUpdates : PutAppointment(id, body)

SpecStatus == Init /\ [][NextStatus]_vars

\* Visits and the services they are linked to.
NextVisit ==
    \/ \E body \in VisitBodies, fault \in StoreFaults : PostVisit(body, fault)
    \/ \E body \in ServiceBodies : PostService(body)

SpecVisit == Init /\ [][NextVisit]_vars

\* The bodies of POST /api/visits that ask for service 1 alone.
OneServiceBodies == {body \in VisitBodies : body.serviceIds = <<1>>}

\* Creation of owners, pets and visits.
NextCreate ==
    \/ \E body \in OwnerBodies : PostOwner(body)
    \/ \E body \in PetBodies : PostPet(body)
    \/ \E body \in OneServiceBodies : PostVisit(body, "none")

SpecCreate == Init /\ [][NextCreate]_vars

\* Owners behind a service whose afterCreate and afterUpdate hooks may raise.
NextHook ==
    \/ \E body \in OwnerBodies, hook \in HookOutcomes : PostOwnerWith(body, hook)
    \/ \E id \in OwnerIds, body \in OwnerUpdates, hook \in HookOutcomes :
          PutOwnerWith(id, body, hook)
    \/ \E id \in OwnerIds : DeleteOwner(id)
    \/ \E body \in PetBodies : PostPet(body)

SpecHook == Init /\ [][NextHook]_vars

\* Owners and pets: create, update and delete.
NextUpdate ==
    \/ \E body \in OwnerBodies : PostOwner(body)
    \/ \E id \in OwnerIds, body \in OwnerUpdates : PutOwner(id, body)
    \/ \E id \in OwnerIds : DeleteOwner(id)
    \/ \E body \in PetBodies : PostPet(body)
    \/ \E id \in PetIds, body \in PetUpdates : PutPet(id, body)
    \/ \E id \in PetIds : DeletePet(id)

SpecUpdate == Init /\ [][NextUpdate]_vars

\* Owners and vets, the two tables with a unique email: create and update.
NextEmail ==
    \/ \E body \in OwnerBodies : PostOwner(body)
    \/ \E id \in OwnerIds, body \in OwnerUpdates : PutOwner(id, body)
    \/ \E body \in VetBodies : PostVet(body)
    \/ \E id \in VetIds, body \in VetUpdates : PutVet(id, body)

SpecEmail == Init /\ [][NextEmail]_vars

\* The owners list with the handlers that change what it lists.
NextList ==
    \/ \E body \in OwnerBodies : PostOwner(body)
    \/ \E id \in OwnerIds, body \in OwnerUpdates : PutOwner(id, body)
    \/ \E id \in OwnerIds : DeleteOwner(id)
    \/ \E body \in PetBodies : PostPet(body)
    \/ \E query \in OwnerQueries, rows \in Orderings(DOMAIN owners), rejects \in BOOLEAN :
          GetOwners(query, rows, rejects)

SpecList == Init /\ [][NextList]_vars

\* Bodies of POST /api/visits for the integrity check: pet 1 and pet 2, with
\* a service and with a service that has no row.
LinkBodies ==
    { VisitBody(1, 1, "2025-04-10", "Flu", <<1>>),
      VisitBody(2, 2, "2025-04-10", "Flu", <<>>),
      VisitBody(1, 1, "2025-04-10", "Flu", <<3>>) }

\* Every handler that creates, updates or deletes a row of a table with a
\* foreign key or of a table one refers to, with one visit, one appointment
\* and one new pet at most.
NextIntegrity ==
    \/ PostOwner([firstName |-> "Tom", lastName |-> "Jones", email |-> "tom@example.com"])
    \/ \E id \in OwnerIds : DeleteOwner(id)
    \/ \E body \in {[name |-> "Bo", ownerId |-> 1], [name |-> "Bo", ownerId |-> 2]} :
          petSeq < 2 /\ PostPet(body)
    \/ \E id \in PetIds : PutPet(id, [ownerId |-> 2])
    \/ \E id \in PetIds : DeletePet(id)
    \/ \E id \in VetIds : DeleteVet(id)
    \/ \E body \in LinkBodies : visitSeq = 0 /\ PostVisit(body, "none")
    \/ \E body \in VisitUpdates : PutVisit(1, body)
    \/ DeleteVisit(1)
    \/ \E body \in {Body(1, 1, "2025-04-10", "09:00"), Body(2, 1, "2025-04-10", "09:00")} :
          apptSeq = 0 /\ PostAppointmentCheck("r1", body)
    \/ PostAppointmentWrite("r1")
    \/ \E body \in {[status |-> "cancelled"], [vetId |-> 2]} : PutAppointment(1, body)
    \/ DeleteAppointmentCheck("r1", 1)
    \/ DeleteAppointmentWrite("r1")

SpecIntegrity == Init /\ [][NextIntegrity]_vars

\* Calls of the sort strategies.
NextSort ==
    \/ \E input \in Collections(DateItems), order \in Orders : SortDates(input, order)
    \/ \E input \in Collections(NameItems), order \in Orders : SortNames(input, order)

SpecSort == Init /\ [][NextSort]_vars

\* Sorting by a requested key: every behaviour is one call.
InitStrategy ==
    /\ InitStore
    /\ response \in {SortCall(key, input, order) :
                        key \in SortKeys, input \in Collections(MixedItems), order \in Orders}

NextStrategy == SortBy

\* The age of a pet: every behaviour is one call.
InitAge ==
    /\ InitStore
    /\ response \in {AgeCall(birthDate, now, zone) :
                        birthDate \in BirthDates, now \in Instants, zone \in Zones}

NextAge == CalcAge

SpecAge == InitAge /\ [][NextAge]_vars

\* Logging in: every behaviour is one request.
InitLogin ==
    /\ InitStore
    /\ response \in {LoginCall(body) : body \in LoginBodies}

NextLogin == PostLogin

SpecLogin == InitLogin /\ [][NextLogin]_vars

\* Sorting by price: every behaviour is one call.
InitPrice ==
    /\ InitStore
    /\ response \in {SortCall(key, input, order) :
                        key \in {"price", "totalCost"}, input \in PriceCollections,
                        order \in Orders}

SpecPrice == InitPrice /\ [][NextStrategy]_vars

SpecStrategy == InitStrategy /\ [][NextStrategy]_vars

\* Bodies of POST /api/visits for the visits list: two days, three costs.
ListedBodies ==
    { VisitBody(1, 1, "2025-04-10", "Flu", <<>>),
      VisitBody(1, 1, "2025-04-10", "Flu", <<1>>),
      VisitBody(1, 1, "2025-04-11", "Flu", <<1, 2>>) }

\* The visits list with the handler that adds what it lists.
NextVisits ==
    \/ \E body \in ListedBodies : PostVisit(body, "none")
    \/ \E query \in VisitQueries, rows \in DateDescending(DOMAIN visits),
          rejects \in BOOLEAN :
          GetVisits(query, rows, rejects)

SpecVisits == Init /\ [][NextVisits]_vars

\* The template methods of BaseCrudService: create, update and delete on
\* AppointmentService, create on OwnerService with one new owner at most.
NextTemplate ==
    \/ \E data \in CreateData : AppointmentServiceCreate(data)
    \/ \E id \in ApptIds, body \in UpdateBodies : PutAppointment(id, body)
    \/ \E id \in ApptIds : DeleteAppointmentCheck("r1", id)
    \/ DeleteAppointmentWrite("r1")
    \/ \E body \in OwnerBodies : ownerSeq < 2 /\ PostOwner(body)

SpecTemplate == Init /\ [][NextTemplate]_vars

\* The observer registry on its own.
NextEmitter ==
    \/ \E eventName \in EventNames, listener \in Listeners \cup {NotAFunction} :
          Subscribe(eventName, listener)
    \/ \E eventName \in EventNames, listener \in Listeners :
          Unsubscribe(eventName, listener)
    \/ \E eventName \in EventNames : Notify(eventName)

SpecEmitter == Init /\ [][NextEmitter]_vars


(***************************************************************************)
(* Properties.                                                             *)
(***************************************************************************)
\* The UTC calendar day of an instant.
Day(t) == t \div TicksPerDay

\* Appointments that hold the slot of vet, day and timeSlot: not cancelled.
Holders(vetId, day, timeSlot) ==
    {id \in DOMAIN appointments :
        /\ appointments[id].vetId = vetId
        /\ Day(appointments[id].date) = day
        /\ appointments[id].timeSlot = timeSlot
        /\ appointments[id].status # "cancelled"}

\* Cancelled appointments of vet, day and timeSlot.
CancelledAt(vetId, day, timeSlot) ==
    {id \in DOMAIN appointments :
        /\ appointments[id].vetId = vetId
        /\ Day(appointments[id].date) = day
        /\ appointments[id].timeSlot = timeSlot
        /\ appointments[id].status = "cancelled"}

\* A body that passes the route's required-field checks.
Complete(body) ==
    /\ body.petId # 0 /\ body.vetId # 0 /\ body.ownerId # 0
    /\ body.date # "" /\ body.timeSlot # ""

\* A body whose pet, vet and owner exist.
Referenced(body) ==
    /\ body.petId \in DOMAIN pets
    /\ body.vetId \in DOMAIN vets
    /\ body.ownerId \in DOMAIN owners

\* The stored rows stay as they are (new rows may be added).
RowsKept ==
    \A id \in DOMAIN appointments :
        id \in DOMAIN appointments' /\ appointments'[id] = appointments[id]

\* C1: no two distinct stored appointments that are not cancelled share the
\* same vet, the same UTC calendar day and the same time slot.
C1_NoDoubleBooking ==
    \A a, b \in DOMAIN appointments :
        (/\ a # b
         /\ appointments[a].status # "cancelled"
         /\ appointments[b].status # "cancelled"
         /\ appointments[a].vetId = appointments[b].vetId
         /\ Day(appointments[a].date) = Day(appointments[b].date))
            => appointments[a].timeSlot # appointments[b].timeSlot

\* C2: the conflict check and the write of one createAppointment call are one
\* atomic transaction: at the moment a call writes its appointment, no
\* appointment that is not cancelled holds its vet, day and slot, so of two
\* concurrent calls for the same slot at most one creates an appointment.
C2_CheckAndCreateAtomic ==
    [][\A p \in Procs :
        (PostAppointmentWrite(p) /\ DOMAIN appointments' # DOMAIN appointments)
            => Holders(pending[p].data.vetId,
                       Day(ParseDate(pending[p].data.date)),
                       pending[p].data.timeSlot) = {}]_vars

\* C3: a createAppointment whose pet, vet and owner exist passes the conflict
\* check exactly when no appointment that is not cancelled holds its vet, UTC
\* day and slot, and its write then adds exactly one appointment, scheduled,
\* answered 201; when the slot is held the call is answered 409 and the stored
\* appointments and the other requests are left as they were.
C3_CreateOrConflict ==
    [][\A p \in Procs :
        /\ \A body \in AppointmentBodies :
            (Complete(body) /\ PostAppointmentCheck(p, body)) =>
                IF Holders(body.vetId, Day(ParseDate(body.date)), body.timeSlot) = {}
                THEN /\ pending'[p] = [op |-> "createAppointment", data |-> body, id |-> 0]
                     /\ appointments' = appointments
                ELSE /\ response' = Reply(409, "This time slot is already booked for the selected vet", 0)
                     /\ appointments' = appointments
                     /\ apptSeq' = apptSeq
                     /\ pending' = pending
        /\ (PostAppointmentWrite(p) /\ Referenced(pending[p].data)) =>
                /\ response'.status = 201
                /\ DOMAIN appointments' = DOMAIN appointments \cup {response'.id}
                /\ response'.id \notin DOMAIN appointments
                /\ appointments'[response'.id].status = "scheduled"
                /\ appointments'[response'.id].vetId = pending[p].data.vetId
                /\ appointments'[response'.id].timeSlot = pending[p].data.timeSlot
                /\ appointments'[response'.id].date = ParseDate(pending[p].data.date)
                /\ RowsKept]_vars

\* C3 witness: one appointment is stored, not cancelled, and the request that
\* completed last was refused as a booked slot.
C3_Witness ==
    /\ response = Reply(409, "This time slot is already booked for the selected vet", 0)
    /\ \E id \in DOMAIN appointments : appointments[id].status # "cancelled"
    /\ Cardinality(DOMAIN appointments) = 1

\* C4: every stored appointment has one of the nine canonical time slots.
C4_CanonicalSlots ==
    \A id \in DOMAIN appointments : appointments[id].timeSlot \in Range(ALL_SLOTS)

\* C5: delete of an existing appointment that is scheduled is answered with
\* the delete-guard conflict (409) and leaves the appointment stored; delete
\* of one that is completed or cancelled passes the guard, and its store
\* delete removes the appointment and returns its id.
C5_DeleteGuard ==
    [][\A p \in Procs :
        /\ \A id \in DOMAIN appointments :
            DeleteAppointmentCheck(p, id) =>
                IF appointments[id].status = "scheduled"
                THEN /\ response' = Reply(409, "Cannot delete a scheduled appointment. Cancel it first.", 0)
                     /\ appointments' = appointments
                     /\ pending' = pending
                ELSE /\ pending'[p] = [op |-> "delete", data |-> NoBody, id |-> id]
                     /\ appointments' = appointments
        /\ (/\ DeleteAppointmentWrite(p)
            /\ pending[p].id \in DOMAIN appointments
            /\ appointments[pending[p].id].status # "scheduled") =>
                /\ DOMAIN appointments' = DOMAIN appointments \ {pending[p].id}
                /\ \A i \in DOMAIN appointments' : appointments'[i] = appointments[i]
                /\ response' = Reply(200, "Appointment deleted successfully", pending[p].id)]_vars

\* C5 witness: an appointment was deleted and its id returned, while another
\* one, scheduled, was refused before and is still stored.
C5_Witness ==
    /\ response.status = 200
    /\ response.text = "Appointment deleted successfully"
    /\ response.id \in 1..apptSeq
    /\ response.id \notin DOMAIN appointments
    /\ \E id \in DOMAIN appointments : appointments[id].status = "scheduled"

\* C6: an appointment is never removed from the store in a step taken while
\* its stored status is scheduled.
C6_NeverDeletedWhileScheduled ==
    [][\A id \in DOMAIN appointments :
        id \notin DOMAIN appointments' => appointments[id].status # "scheduled"]_vars

\* The junction rows of a visit that link it to a service.
LinksTo(junctionRows, visitId, serviceId) ==
    {j \in DOMAIN junctionRows :
        junctionRows[j].visitId = visitId /\ junctionRows[j].serviceId = serviceId}

\* The positions of a service id in a list of service ids.
Positions(serviceIds, serviceId) ==
    {i \in DOMAIN serviceIds : serviceIds[i] = serviceId}

\* C7: createVisitWithServices is all-or-nothing. A POST /api/visits whose
\* transaction fails leaves the Visit and VisitService tables as they were;
\* one that succeeds adds exactly one visit and, for every service id, as
\* many junction rows of that visit as the id was requested, and touches no
\* other row.
C7_AllOrNothing ==
    [][\A body \in VisitBodies, fault \in StoreFaults :
        PostVisit(body, fault) =>
            IF response'.status = 201
            THEN LET id == response'.id
                 IN /\ id \notin DOMAIN visits
                    /\ DOMAIN visits' = DOMAIN visits \cup {id}
                    /\ \A v \in DOMAIN visits : visits'[v] = visits[v]
                    /\ DOMAIN visitServices \subseteq DOMAIN visitServices'
                    /\ \A j \in DOMAIN visitServices :
                          visitServices'[j] = visitServices[j]
                    /\ \A j \in DOMAIN visitServices' \ DOMAIN visitServices :
                          visitServices'[j].visitId = id
                    /\ \A serviceId \in 1..MaxServices :
                          Cardinality(LinksTo(visitServices', id, serviceId))
                            = Cardinality(Positions(body.serviceIds, serviceId))
            ELSE visits' = visits /\ visitServices' = visitServices]_vars

\* C7 witness: a visit is stored, and a later createVisitWithServices has
\* failed inside its transaction.
C7_Witness ==
    /\ response = Reply(500, "Failed to create visit", 0)
    /\ DOMAIN visits # {}
    /\ \A v \in DOMAIN visits :
          \E j \in DOMAIN visitServices : visitServices[j].visitId = v

\* The sum of the current prices of the services of a list of service ids.
RECURSIVE PriceSum(_)
PriceSum(serviceIds) ==
    IF serviceIds = <<>> THEN 0
    ELSE services[Head(serviceIds)].price + PriceSum(Tail(serviceIds))

\* C8: the DTO of a successful createVisitWithServices has one services
\* entry per element of serviceIds and a totalCost that is the sum of the
\* current prices of those services; for an empty serviceIds the list is
\* empty and the totalCost 0.
C8_DtoServicesAndTotal ==
    [][\A body \in VisitBodies, fault \in StoreFaults :
        PostVisit(body, fault) /\ response'.status = 201 =>
            /\ Len(response'.data.services) = Len(body.serviceIds)
            /\ response'.data.totalCost = PriceSum(body.serviceIds)
            /\ body.serviceIds = <<>> =>
                  response'.data.services = <<>> /\ response'.data.totalCost = 0]_vars

\* C8 witness: a visit was created with the same service twice, and its DTO
\* lists two services and twice the price.
C8_Witness ==
    /\ response.status = 201
    /\ "data" \in DOMAIN response
    /\ Len(response.data.services) = 2
    /\ response.data.services[1].name = response.data.services[2].name
    /\ response.data.totalCost = 2 * services[2].price

\* C9: for every vet and date, getVetAvailability returns nine entries, in the
\* order 09:00 .. 17:00, and an entry is busy exactly when an appointment that
\* is not cancelled holds that slot for the vet on the date's UTC day.
C9_Availability ==
    \A vetId \in {1, 2, 3}, date \in {"2025-04-10", "2025-04-10T12:00:00Z", "2025-04-11"} :
        LET slots == getVetAvailability(vetId, date) IN
            /\ DOMAIN slots = 1..9
            /\ [i \in 1..9 |-> slots[i].slot] =
                   <<"09:00", "10:00", "11:00", "12:00", "13:00", "14:00", "15:00",
                     "16:00", "17:00">>
            /\ \A i \in 1..9 :
                /\ slots[i].status \in {"free", "busy"}
                /\ slots[i].status = "busy"
                      <=> Holders(vetId, Day(ParseDate(date)), slots[i].slot) # {}

\* C9 witness: for vet 1 on 2025-04-10, 09:00 is busy by an appointment made
\* at another instant of the day, 10:00 is free though a cancelled appointment
\* is stored for it or an appointment of another day or vet is stored.
C9_Witness ==
    /\ getVetAvailability(1, "2025-04-10")[1].status = "busy"
    /\ getVetAvailability(1, "2025-04-10")[2].status = "free"
    /\ \E id \in DOMAIN appointments :
        /\ appointments[id].date = 1
        /\ appointments[id].status # "cancelled"
        /\ appointments[id].timeSlot = "09:00"
    /\ \E id \in DOMAIN appointments :
        \/ appointments[id].status = "cancelled"
        \/ appointments[id].date = TicksPerDay
        \/ appointments[id].vetId = 2

\* C10: a createAppointment for a vet, day and slot whose only appointments
\* are cancelled passes the conflict check, and the write of a
\* createAppointment leaves every stored appointment, the cancelled ones
\* included, as it was.
C10_CancelledFreesSlot ==
    [][\A p \in Procs :
        /\ \A body \in AppointmentBodies :
            (/\ Complete(body)
             /\ CancelledAt(body.vetId, Day(ParseDate(body.date)), body.timeSlot) # {}
             /\ Holders(body.vetId, Day(ParseDate(body.date)), body.timeSlot) = {}
             /\ PostAppointmentCheck(p, body))
                => /\ pending'[p] = [op |-> "createAppointment", data |-> body, id |-> 0]
                   /\ response' = response
        /\ \A id \in DOMAIN appointments :
            (PutAppointment(id, [status |-> "cancelled"])) =>
                /\ appointments'[id].status = "cancelled"
                /\ Holders(appointments[id].vetId, Day(appointments[id].date),
                           appointments[id].timeSlot)' =
                       Holders(appointments[id].vetId, Day(appointments[id].date),
                               appointments[id].timeSlot) \ {id}
        /\ (PostAppointmentWrite(p) /\ Referenced(pending[p].data)) =>
                /\ response'.status = 201
                /\ RowsKept]_vars

\* C10 witness: a cancelled appointment and the appointment just created for
\* the same vet, day and slot are both stored.
C10_Witness ==
    /\ response.status = 201
    /\ response.id \in DOMAIN appointments
    /\ \E id \in DOMAIN appointments :
        /\ id # response.id
        /\ appointments[id].status = "cancelled"
        /\ appointments[id].vetId = appointments[response.id].vetId
        /\ Day(appointments[id].date) = Day(appointments[response.id].date)
        /\ appointments[id].timeSlot = appointments[response.id].timeSlot

\* C11: every appointment written by createAppointment is stored with status
\* scheduled, whatever status the input carries.
C11_CreatedScheduled ==
    [][\A p \in Procs :
        (PostAppointmentWrite(p) /\ DOMAIN appointments' # DOMAIN appointments) =>
            \A id \in DOMAIN appointments' \ DOMAIN appointments :
                appointments'[id].status = "scheduled"]_vars

\* C11 witness: POST /api/appointments, whose bodies all carry a status other
\* than scheduled here, has created an appointment that is stored as scheduled.
C11_Witness ==
    /\ response.status = 201
    /\ response.id \in DOMAIN appointments
    /\ appointments[response.id].status = "scheduled"

\* C12: the status of every stored appointment is one of scheduled,
\* completed, cancelled.
C12_StatusEnumerated ==
    \A id \in DOMAIN appointments :
        appointments[id].status \in {"scheduled", "completed", "cancelled"}

\* The field is absent from the input or blank.
Lacks(input, field) == field \notin DOMAIN input \/ IsBlank(input[field])

\* The input has no email or one without "@".
LacksEmail(input) == "email" \notin DOMAIN input \/ ~HasAt(input.email)

C14_HookFailureSwallowed ==
    [][\A hook \in {"throws", "rejects"} :
        /\ \A body \in OwnerBodies :
            (OwnerServiceCreateThrows(body) = NoError /\ PostOwnerWith(body, hook)) =>
                response'.status = 201
        /\ \A id \in OwnerIds, body \in OwnerUpdates :
            (OwnerServiceUpdateThrows(id, body) = NoError
                /\ PutOwnerWith(id, body, hook)) =>
                response'.status = 200]_vars

\* C15: an update of an id that does not exist is answered 404 whatever the
\* input is, and creates no record.
C15_UpdateMissingNotFound ==
    [][/\ \A id \in OwnerIds, body \in OwnerUpdates :
            (id \notin DOMAIN owners /\ PutOwner(id, body)) =>
                (response'.status = 404 /\ owners' = owners)
       /\ \A id \in PetIds, body \in PetUpdates :
            (id \notin DOMAIN pets /\ PutPet(id, body)) =>
                (response'.status = 404 /\ pets' = pets)]_vars

\* No two rows of the table hold the same email.
EmailsUnique(rows) ==
    \A a, b \in DOMAIN rows : rows[a].email = rows[b].email => a = b

\* C16: creating or updating an owner or a vet with an otherwise valid input
\* whose email another row of the same table holds is answered 409, and the
\* emails of each table stay unique.
C16_DuplicateEmailConflict ==
    [][/\ \A body \in OwnerBodies :
            (/\ OwnerValidate(body) = ""
             /\ "email" \in DOMAIN body
             /\ OwnerEmailHolders(body.email, 0) # {}
             /\ PostOwner(body)) => response'.status = 409
       /\ \A id \in OwnerIds, body \in OwnerUpdates :
            (/\ id \in DOMAIN owners
             /\ OwnerValidate(body) = ""
             /\ "email" \in DOMAIN body
             /\ OwnerEmailHolders(body.email, id) # {}
             /\ PutOwner(id, body)) => response'.status = 409
       /\ \A body \in VetBodies :
            (/\ "email" \in DOMAIN body
             /\ ~IsBlank(body.firstName)
             /\ VetEmailHolders(body.email, 0) # {}
             /\ PostVet(body)) => response'.status = 409
       /\ \A id \in VetIds, body \in VetUpdates :
            (/\ id \in DOMAIN vets
             /\ VetEmailHolders(body.email, id) # {}
             /\ PutVet(id, body)) => response'.status = 409
       /\ EmailsUnique(owners') /\ EmailsUnique(vets')]_vars

\* C17: for every requested page and pageSize the owners list answers with
\* the page floored to at least 1 and the pageSize clamped to 1..100 (10 when
\* absent), holds the rows from offset (page-1)*pageSize, at most pageSize of
\* them, and reports totalPages = ceil(total/pageSize).
C17_Pagination ==
    [][\A query \in OwnerQueries, rows \in Orderings(DOMAIN owners), rejects \in BOOLEAN :
        GetOwners(query, rows, rejects) =>
            LET askedPage == ParseInt(Param(query, "page", "1"))
                askedSize == ParseInt(Param(query, "limit", "10"))
                paging == response'.pagination
                offset == (paging.page.n - 1) * paging.limit.n
            IN /\ response'.status = 200
               /\ ~paging.page.nan /\ paging.page.n >= 1
               /\ ~askedPage.nan => paging.page.n = (IF askedPage.n < 1 THEN 1 ELSE askedPage.n)
               /\ ~paging.limit.nan /\ paging.limit.n \in 1..100
               /\ ~askedSize.nan =>
                      paging.limit.n = (IF askedSize.n < 1 THEN 1
                                        ELSE IF askedSize.n > 100 THEN 100 ELSE askedSize.n)
               /\ Len(response'.data) <= paging.limit.n
               /\ {response'.data[k].id : k \in DOMAIN response'.data} =
                      {rows[k] : k \in (offset + 1)..(offset + paging.limit.n) \cap DOMAIN rows}
               /\ paging.totalPages =
                      Num((paging.total + paging.limit.n - 1) \div paging.limit.n)]_vars

\* The place of an owner's full name in case-insensitive alphabetical order.
FullNameRank(fullName) ==
    CASE fullName = "Ann Lee" -> 1
      [] fullName = "Jane Smith" -> 2
      [] fullName = "Tom Jones" -> 3

\* C19: SortByDate returns the dated items in ascending order for "asc" and
\* in descending order for "desc", and every item without a date after all
\* dated items in both directions.
C19_DatesOrdered ==
    ("input" \in DOMAIN response /\ response.text = "SortByDate") =>
        \A i, j \in DOMAIN response.data :
            i < j =>
                LET a == TimeOf(response.data[i])
                    b == TimeOf(response.data[j])
                IN /\ ~(a.inf /\ ~b.inf)
                   /\ (~a.inf /\ ~b.inf) =>
                         IF response.order = "desc" THEN a.t >= b.t ELSE a.t <= b.t

\* C20: GET /api/owners sorted by name returns the owners of the page
\* ordered by full name, in the direction asked.
C20_OwnersByFullName ==
    [][\A query \in OwnerQueries, rows \in Orderings(DOMAIN owners), rejects \in BOOLEAN :
        (/\ Param(query, "sortBy", "name") = "name"
         /\ GetOwners(query, rows, rejects)
         /\ response'.status = 200) =>
            \A i, j \in DOMAIN response'.data :
                i < j =>
                    LET a == FullNameRank(response'.data[i].fullName)
                        b == FullNameRank(response'.data[j].fullName)
                    IN IF Param(query, "order", "asc") = "desc" THEN a >= b ELSE a <= b]_vars

\* Every foreign key of every stored row names a stored row.
ReferencesExist ==
    /\ \A p \in DOMAIN pets : pets[p].ownerId \in DOMAIN owners
    /\ \A v \in DOMAIN visits :
          visits[v].petId \in DOMAIN pets /\ visits[v].vetId \in DOMAIN vets
    /\ \A a \in DOMAIN appointments :
          /\ appointments[a].petId \in DOMAIN pets
          /\ appointments[a].vetId \in DOMAIN vets
          /\ appointments[a].ownerId \in DOMAIN owners
    /\ \A j \in DOMAIN visitServices :
          /\ visitServices[j].visitId \in DOMAIN visits
          /\ visitServices[j].serviceId \in DOMAIN services

\* Some stored row refers to the row id of the table, by the foreign keys of
\* migration.sql.
StillReferenced(table, id) ==
    CASE table = "Owner" ->
            \/ \E p \in DOMAIN pets : pets[p].ownerId = id
            \/ \E a \in DOMAIN appointments : appointments[a].ownerId = id
      [] table = "Pet" ->
            \/ \E v \in DOMAIN visits : visits[v].petId = id
            \/ \E a \in DOMAIN appointments : appointments[a].petId = id
      [] table = "Vet" ->
            \/ \E v \in DOMAIN visits : visits[v].vetId = id
            \/ \E a \in DOMAIN appointments : appointments[a].vetId = id
      [] table = "Visit" ->
            \E j \in DOMAIN visitServices : visitServices[j].visitId = id

\* C18: after any sequence of creates, updates and deletes every foreign key
\* names a stored row, and a delete of a row that is still referenced fails
\* and removes nothing.
C18_ReferentialIntegrity ==
    [][/\ ReferencesExist'
       /\ \A id \in OwnerIds :
            (id \in DOMAIN owners /\ StillReferenced("Owner", id) /\ DeleteOwner(id)) =>
                (response'.status = 500 /\ owners' = owners)
       /\ \A id \in PetIds :
            (id \in DOMAIN pets /\ StillReferenced("Pet", id) /\ DeletePet(id)) =>
                (response'.status = 500 /\ pets' = pets)
       /\ \A id \in VetIds :
            (id \in DOMAIN vets /\ StillReferenced("Vet", id) /\ DeleteVet(id)) =>
                (response'.status = 500 /\ vets' = vets)
       /\ (1 \in DOMAIN visits /\ StillReferenced("Visit", 1) /\ DeleteVisit(1)) =>
                (response'.status = 500 /\ visits' = visits)]_vars

\* The delete of a pet that an appointment still refers to has failed, and
\* the pet and the appointment are stored.
C18_Witness ==
    /\ response.status = 500
    /\ response.text = "Failed to delete pet"
    /\ \E a \in DOMAIN appointments : appointments[a].petId \in DOMAIN pets
    /\ visits = <<>>

\* C21: for a sort key that is none of name, date, createdAt, price and
\* totalCost, sorting by the key gives the sequence that sorting by name gives.
C21_UnknownKeyIsName ==
    ("data" \in DOMAIN response /\ "key" \in DOMAIN response
        /\ response.key \notin {"name", "date", "createdAt", "price", "totalCost"}) =>
        response.data = SortByName(response.input, response.order)

\* A collection that the date strategy would order differently was sorted by
\* an unrecognised key.
C21_Witness ==
    /\ "data" \in DOMAIN response /\ "key" \in DOMAIN response
    /\ response.key = "fullName"
    /\ Len(response.input) = 3
    /\ response.data # response.input
    /\ SortByName(response.input, response.order) # SortByDate(response.input, response.order)

\* The value the price sort is to compare an item by: its price, its
\* totalCost when it has no price, 0 when it has neither or the price is no
\* number.
PriceKey(item) ==
    IF "priceText" \in DOMAIN item THEN 0
    ELSE IF "price" \in DOMAIN item THEN item.price
    ELSE IF "totalCost" \in DOMAIN item THEN item.totalCost
    ELSE 0

\* C22: SortByPrice returns the items ordered by price, by totalCost when the
\* price is absent and by 0 when the value is missing or no number, in the
\* direction asked.
C22_PriceOrdered ==
    ("data" \in DOMAIN response /\ response.text = "SortByPrice") =>
        \A i, j \in DOMAIN response.data :
            i < j =>
                IF response.order = "desc"
                THEN PriceKey(response.data[i]) >= PriceKey(response.data[j])
                ELSE PriceKey(response.data[i]) <= PriceKey(response.data[j])

\* The first date is earlier in its year than the second is in its own.
EarlierInYear(a, b) ==
    a.month < b.month \/ (a.month = b.month /\ a.day < b.day)

\* C23: the age of a pet is the difference of the years of the evaluation
\* date and the birth date, minus one when the evaluation month and day
\* precede the birth month and day, and is not negative for a birth date not
\* after the evaluation date. The evaluation date is the calendar date of the
\* clock where the server runs.
C23_Age ==
    "age" \in DOMAIN response =>
        LET birth == response.birthDate
            today == LocalDate(response.now, response.zone)
        IN /\ response.age =
                 (today.year - birth.year) - (IF EarlierInYear(today, birth) THEN 1 ELSE 0)
           /\ (birth.year < today.year \/ ~EarlierInYear(today, birth)) => response.age >= 0

\* The body carries a known email, and a password that is present and not the
\* user's.
KnownEmailWrongPassword(body) ==
    /\ body.email \in DOMAIN Users
    /\ ~Falsy(body.password)
    /\ body.password # Str("admin123")

\* C24: the answer to a login with an unknown email and a password is the
\* answer (status 401 and body) to any login with a known email and a wrong
\* password.
C24_LoginIndistinguishable ==
    ("json" \in DOMAIN response
        /\ response.body.email # "" /\ response.body.email \notin DOMAIN Users
        /\ ~Falsy(response.body.password)) =>
        \A other \in LoginBodies :
            KnownEmailWrongPassword(other) =>
                /\ response.status = 401
                /\ LoginReply(other).status = response.status
                /\ LoginReply(other).json = response.json

\* C25: a failure the store raises during a create or an update (a unique or
\* foreign-key violation, a missing column value) is answered 500 with the
\* route's fixed message, never 400 and never with the store's own message.
C25_StoreFailureGeneric ==
    [][/\ \A body \in OwnerBodies :
            (/\ OwnerValidate(body) = ""
             /\ OwnerCreateError(body) # NoError
             /\ PostOwner(body)) =>
                (response'.status = 500 /\ response'.text = "Failed to create owner")
       /\ \A id \in OwnerIds, body \in OwnerUpdates :
            (/\ OwnerValidate(body) = ""
             /\ OwnerUpdateError(id, body) \notin {NoError, UpdateNotFound}
             /\ PutOwner(id, body)) =>
                (response'.status = 500 /\ response'.text = "Failed to update owner")]_vars

\* How many times a listener occurs in a sequence of invocations.
Invocations(listener, delivered) ==
    Cardinality({i \in DOMAIN delivered : delivered[i] = listener})

\* C26: notify(event) invokes every listener subscribed to the event exactly
\* once, in subscription order, also after a listener that throws, and lets
\* no exception out; subscribing a listener that is already registered and
\* unsubscribing one that is not both leave the registry as it was, and a new
\* subscriber goes last.
C26_NotifyAll ==
    [][\A eventName \in EventNames :
          /\ Notify(eventName) =>
                /\ calls'.event = eventName
                /\ calls'.delivered = listeners[eventName]
                /\ \A listener \in Listeners :
                      Invocations(listener, calls'.delivered) =
                          IF listener \in Range(listeners[eventName]) THEN 1 ELSE 0
                /\ response' = NoError
                /\ listeners' = listeners
          /\ \A listener \in Listeners :
                /\ Subscribe(eventName, listener) =>
                      listeners'[eventName] =
                          IF listener \in Range(listeners[eventName])
                          THEN listeners[eventName]
                          ELSE Append(listeners[eventName], listener)
                /\ (listener \notin Range(listeners[eventName])
                      /\ Unsubscribe(eventName, listener)) =>
                      listeners' = listeners]_vars

\* A notify reached a listener that was subscribed after one that throws.
C26_Witness ==
    /\ calls.event \in EventNames
    /\ Len(calls.delivered) >= 2
    /\ \E i, j \in DOMAIN calls.delivered :
          i < j /\ ListenerThrows(calls.delivered[i]) /\ ~ListenerThrows(calls.delivered[j])
    /\ calls.delivered = listeners[calls.event]
    /\ response = NoError

\* The query that asks for a page of the list a query lists.
AtPage(query, page) ==
    [key \in DOMAIN query \cup {"page"} |->
        IF key = "page" THEN (CASE page = 1 -> "1" [] page = 2 -> "2") ELSE query[key]]

\* The data of the pages from one page to the last, one after the other.
RECURSIVE VisitPages(_, _, _, _)
VisitPages(query, rows, page, totalPages) ==
    IF page > totalPages THEN <<>>
    ELSE VisitsReply(AtPage(query, page), rows, FALSE).data
            \o VisitPages(query, rows, page + 1, totalPages)

\* C27: with the store unchanged, the pages 1..totalPages of GET /api/visits
\* sorted by price hold, one after the other, every visit exactly once and in
\* the order of totalCost across the pages, in the direction asked.
C27_PagesGloballyOrdered ==
    [][\A query \in VisitQueries, rows \in DateDescending(DOMAIN visits) :
        (/\ "page" \notin DOMAIN query
         /\ Param(query, "sortBy", "date") = "price"
         /\ GetVisits(query, rows, FALSE)) =>
            LET all == VisitPages(query, rows, 1, response'.pagination.totalPages.n)
            IN /\ Len(all) = Cardinality(DOMAIN visits)
               /\ \A id \in DOMAIN visits :
                     Cardinality({k \in DOMAIN all : all[k].id = id}) = 1
               /\ \A i, j \in DOMAIN all :
                     i < j => IF Param(query, "order", "desc") = "desc"
                              THEN all[i].totalCost >= all[j].totalCost
                              ELSE all[i].totalCost <= all[j].totalCost]_vars

\* createAppointment(data), run to its end in the state as it is, returns an
\* appointment: the conflict check finds no row and the store accepts the
\* insert.
WouldSucceed(data) ==
    ConflictRows(data) = {} /\ AppointmentRefsExist(NewAppointment(data))

\* C28: for every vetId, date and canonical timeSlot, getVetAvailability
\* labels the slot free exactly when a createAppointment for them (for pet 1
\* of owner 1) run next would succeed.
C28_FreeIffBookable ==
    \A vetId \in VetIds, date \in {"2025-04-10", "2025-04-10T12:00:00Z", "2025-04-11"},
       i \in DOMAIN ALL_SLOTS :
        (getVetAvailability(vetId, date)[i].status = "free") <=>
            WouldSucceed(Body(1, vetId, date, ALL_SLOTS[i]))

\* Some VisitService row belongs to the visit.
HasServiceRow(v) == \E j \in DOMAIN visitServices : visitServices[j].visitId = v

StoreKept ==
    /\ UNCHANGED <<owners, ownerSeq, pets, petSeq, vets, vetSeq, appointments, apptSeq>>
    /\ UNCHANGED <<services, visits, visitSeq, visitServices, visitServiceSeq>>

\* C30: a create or an update whose validate raises writes nothing, the store
\* being after the call what it was before it; a delete whose beforeDelete
\* raises (the appointment is scheduled) issues no store delete.
C30_GuardsBeforeStore ==
    [][/\ \A data \in CreateData :
            (AppointmentValidate(data) # "" /\ AppointmentServiceCreate(data)) =>
                StoreKept /\ response' = Reply(0, AppointmentValidate(data), 0)
       /\ \A id \in ApptIds, body \in UpdateBodies :
            (AppointmentValidate(body) # "" /\ PutAppointment(id, body)) =>
                StoreKept /\ response'.status = 400
       /\ \A body \in OwnerBodies :
            (OwnerValidate(body) # "" /\ PostOwner(body)) =>
                StoreKept /\ response' = Reply(400, OwnerValidate(body), 0)
       /\ \A p \in Procs, id \in DOMAIN appointments :
            (appointments[id].status = "scheduled" /\ DeleteAppointmentCheck(p, id)) =>
                /\ StoreKept
                /\ pending' = pending
                /\ response'.status = 409]_vars

\* An update of a stored appointment was refused by validate, with the
\* appointment stored and no request holding a write.
C30_Witness ==
    /\ response = Reply(400,
          "timeSlot must be one of: 09:00, 10:00, 11:00, 12:00, 13:00, 14:00, 15:00, 16:00, 17:00", 0)
    /\ appointments # <<>>
    /\ \A p \in Procs : pending[p] = Idle
====
